---- MODULE Spec2Model ----
(***************************************************************************)
(* A model of the commitment pipeline of other-voices:                     *)
(*   - the transcript chunker           (src/src/chunking.py)              *)
(*   - the extraction orchestrator      (src/src/commitment_extractor.py)  *)
(*   - the deduplicator                 (src/src/commitment_extractor.py)  *)
(*   - the evaluation match engine      (src/evaluation/evaluate.py)       *)
(* Each subsystem has its own specification (SpecChunk, SpecExtract,       *)
(* SpecDedup, SpecMatch) over its own variables; the variables of the      *)
(* other subsystems stay at their idle values.                             *)
(*                                                                         *)
(* Python strings are TLA+ strings; positions are Python's (0-based), and  *)
(* slices follow Python's rules for negative and out-of-range indices.     *)
(***************************************************************************)
EXTENDS Integers, Sequences, FiniteSets, TLC

VARIABLES
    \* chunk_transcript
    text, max_chars, overlap, chunks, start, cpc,
    \* _deduplicate_commitments
    dd_in, dd_out, dd_pc,
    \* match_commitments
    ground_truth, predictions, all_pairs, scan, used_gt, used_pred,
    matches, unmatched_preds, mpc,
    \* extract_commitments
    transcript, chunk_i, attempt, calls, all_commitments, notes_parts,
    result, raised, xpc,
    \* insert_commitments and evaluate_session
    batch, ins_i, rows, table, ins_exc, ipc, gt_raw, passed_gt, passed_pred, epc,
    \* _parse_json
    pj_src, pj_raw, pj_out, pj_pc,
    \* evaluate, report_to_dict
    gt_keys, ev_k, report, rpc, result_dict

chunkVars == <<text, max_chars, overlap, chunks, start, cpc>>
dedupVars == <<dd_in, dd_out, dd_pc>>

matchVars == <<ground_truth, predictions, all_pairs, scan, used_gt,
               used_pred, matches, unmatched_preds, mpc>>

extractVars == <<transcript, chunk_i, attempt, calls, all_commitments,
                 notes_parts, result, raised, xpc>>

normVars == <<batch, ins_i, rows, table, ins_exc, ipc, gt_raw, passed_gt,
              passed_pred, epc>>

parseVars == <<pj_src, pj_raw, pj_out, pj_pc>>

reportVars == <<gt_keys, ev_k, report, rpc, result_dict>>

vars == <<chunkVars, dedupVars, matchVars, extractVars, normVars, parseVars,
          reportVars>>

\* what a subsystem's steps leave alone
exceptChunk ==
    <<dedupVars, matchVars, extractVars, normVars, parseVars, reportVars>>
exceptDedup ==
    <<chunkVars, matchVars, extractVars, normVars, parseVars, reportVars>>
exceptMatch ==
    <<chunkVars, dedupVars, extractVars, normVars, parseVars, reportVars>>
exceptExtract ==
    <<chunkVars, dedupVars, matchVars, normVars, parseVars, reportVars>>
exceptNorm ==
    <<chunkVars, dedupVars, matchVars, extractVars, parseVars, reportVars>>
exceptParse ==
    <<chunkVars, dedupVars, matchVars, extractVars, normVars, reportVars>>
exceptReport ==
    <<chunkVars, dedupVars, matchVars, extractVars, normVars, parseVars>>

----------------------------------------------------------------------------
(* Bounds of the model *)

\* longest transcript handed to chunk_transcript
MaxTextLen == 6
\* largest max_chars handed to chunk_transcript
MaxMaxChars == 5
\* iterations of the chunking loop the model follows before it stops looking
MaxChunkIter == 6
\* longest list handed to _deduplicate_commitments
MaxDedupLen == 3
\* longest reference list and longest predicted list handed to match_commitments
MaxGt == 2
MaxPred == 2
\* most chunks chunk_transcript returns for a transcript handed to
\* extract_commitments
MaxChunks == 2
\* longest batch handed to insert_commitments, and longest reference list
\* handed to evaluate_session
MaxBatch == 2
MaxEvalGt == 1

----------------------------------------------------------------------------
(* Python string helpers *)

NL == "\n"

Max(S) == CHOOSE m \in S : \A x \in S : x <= m

\* the character of s at Python position i (0 <= i < len(s))
Ch(s, i) == SubSeq(s, i + 1, i + 1)

\* CPython's slice index adjustment: a negative index counts from the end,
\* and the result is clamped to 0..n
PyIndex(i, n) ==
    IF i < 0 THEN (IF i + n < 0 THEN 0 ELSE i + n)
    ELSE (IF i > n THEN n ELSE i)

\* s[a:b]
PySlice(s, a, b) ==
    LET lo == PyIndex(a, Len(s))
        hi == PyIndex(b, Len(s))
    IN  IF hi <= lo THEN "" ELSE SubSeq(s, lo + 1, hi)

\* s.rfind("\n", a, b): the highest position of a line break in s[a:b], or -1
RFindNL(s, a, b) ==
    LET lo == PyIndex(a, Len(s))
        hi == PyIndex(b, Len(s))
        at == {i \in lo..(hi - 1) : Ch(s, i) = NL}
    IN  IF at = {} THEN -1 ELSE Max(at)

\* all strings over the alphabet A of length at most n
RECURSIVE StringsUpTo(_, _)
StringsUpTo(A, n) ==
    IF n = 0 THEN {""}
    ELSE LET shorter == StringsUpTo(A, n - 1)
         IN  shorter \cup {s \o c : s \in shorter, c \in A}

----------------------------------------------------------------------------
(* chunk_transcript (src/src/chunking.py) *)

Texts == StringsUpTo({"a", NL}, MaxTextLen)

ChunkIdle ==
    /\ text = "" /\ max_chars = 0 /\ overlap = 0
    /\ chunks = <<>> /\ start = 0 /\ cpc = "idle"

\* a call chunk_transcript(text, max_chars, overlap); overlap = max_chars is
\* the caller error the function is handed unchecked
ChunkInit ==
    /\ text \in Texts
    /\ max_chars \in 1..MaxMaxChars
    /\ overlap \in 0..max_chars
    /\ chunks = <<>>
    /\ start = 0
    /\ cpc = "call"

\* a fast path that misses the text of exactly max_chars characters
ChunkCallBelowOnly ==
    /\ cpc = "call"
    /\ \/ /\ Len(text) < max_chars
          /\ chunks' = <<text>>
          /\ cpc' = "done"
       \/ /\ Len(text) >= max_chars
          /\ chunks' = <<>>
          /\ cpc' = "loop"
    /\ UNCHANGED <<text, max_chars, overlap, start>>
    /\ UNCHANGED exceptChunk

\* lines 21-26: the single-chunk fast path, or entry into the loop
ChunkCall ==
    /\ cpc = "call"
    /\ \/ /\ Len(text) <= max_chars
          /\ chunks' = <<text>>
          /\ cpc' = "done"
       \/ /\ Len(text) > max_chars
          /\ chunks' = <<>>
          /\ cpc' = "loop"
    /\ UNCHANGED <<text, max_chars, overlap, start>>
    /\ UNCHANGED exceptChunk

\* a cut one character past the window
CutEndPastWindow(st) == st + max_chars + 1

\* lines 29, 36-39: where the chunk starting at st ends
CutEnd(st) ==
    LET end == st + max_chars
        last_nl == RFindNL(text, st, end)
    IN  IF last_nl > st THEN last_nl + 1 ELSE end

\* line 44: where the next chunk starts
NextStart(end) == end - overlap

\* lines 28-34: the window reaches the end of the text: the last chunk
ChunkLast ==
    /\ cpc = "loop"
    /\ start < Len(text)
    /\ start + max_chars >= Len(text)
    /\ chunks' = Append(chunks, PySlice(text, start, Len(text)))
    /\ cpc' = "done"
    /\ UNCHANGED <<text, max_chars, overlap, start>>
    /\ UNCHANGED exceptChunk

\* lines 28-29, 36-44: one iteration that cuts a chunk and moves start.
\* (`while start < text_len` never fails here: start = end - overlap with
\* end < text_len and overlap >= 0.)
ChunkCut ==
    /\ cpc = "loop"
    /\ start < Len(text)
    /\ start + max_chars < Len(text)
    /\ Len(chunks) < MaxChunkIter
    /\ LET end == CutEnd(start)
       IN  /\ chunks' = Append(chunks, PySlice(text, start, end))
           /\ start' = NextStart(end)
    /\ UNCHANGED <<text, max_chars, overlap, cpc>>
    /\ UNCHANGED exceptChunk

ChunkNext == ChunkCall \/ ChunkLast \/ ChunkCut

----------------------------------------------------------------------------
(* Commitment records, as the model's responses carry them: a dict of either
   extraction schema.  A key the dict lacks reads as NONE (what dict.get
   returns). *)

NONE == "<None>"

\* Python truthiness of dict.get's result: None and "" are false
Truthy(v) == v # NONE /\ v # ""

\* a or b
PyOr(a, b) == IF Truthy(a) THEN a ELSE b

WhiteSpace == {" ", "\t", "\n", "\r"}

\* s.strip()
RECURSIVE LStrip(_)
LStrip(s) ==
    IF Len(s) > 0 /\ Ch(s, 0) \in WhiteSpace
    THEN LStrip(SubSeq(s, 2, Len(s))) ELSE s

RECURSIVE RStrip(_)
RStrip(s) ==
    IF Len(s) > 0 /\ Ch(s, Len(s) - 1) \in WhiteSpace
    THEN RStrip(SubSeq(s, 1, Len(s) - 1)) ELSE s

Strip(s) == RStrip(LStrip(s))

UpperCase == "ABCDEFGHIJKLMNOPQRSTUVWXYZ"
LowerCase == "abcdefghijklmnopqrstuvwxyz"

LowerCh(c) ==
    IF \E i \in 0..25 : Ch(UpperCase, i) = c
    THEN Ch(LowerCase, CHOOSE i \in 0..25 : Ch(UpperCase, i) = c)
    ELSE c

\* s.lower()
RECURSIVE Lower(_)
Lower(s) ==
    IF Len(s) = 0 THEN ""
    ELSE LowerCh(Ch(s, 0)) \o Lower(SubSeq(s, 2, Len(s)))

----------------------------------------------------------------------------
(* _deduplicate_commitments (src/src/commitment_extractor.py) *)

\* lines 296-300: the three parts of the key
KeyParts(c) ==
    << PyOr(PyOr(c.what, c.commitment_text), ""),
       PyOr(PyOr(c.who, c.committer_label), ""),
       PyOr(PyOr(c.to_whom, c.recipient_label), "") >>

\* "|".join(parts)
JoinBar(parts) == parts[1] \o "|" \o parts[2] \o "|" \o parts[3]

\* line 301
DedupKey(c) ==
    LET kp == KeyParts(c)
    IN  JoinBar(<<Lower(Strip(kp[1])), Lower(Strip(kp[2])), Lower(Strip(kp[3]))>>)

\* a loop that forgets a key when it drops a record for it, so that a third
\* record of the key is kept again
RECURSIVE DedupFromForgets(_, _, _, _)
DedupFromForgets(cs, i, seen, unique) ==
    IF i > Len(cs) THEN unique
    ELSE LET c == cs[i]
             key == DedupKey(c)
         IN  IF key # "" /\ key \notin seen
               THEN DedupFromForgets(cs, i + 1, seen \cup {key}, Append(unique, c))
             ELSE IF key = ""
               THEN DedupFromForgets(cs, i + 1, seen, Append(unique, c))
             ELSE DedupFromForgets(cs, i + 1, seen \ {key}, unique)

\* lines 294-307: the loop from record i on, with the keys seen so far and
\* the records kept so far
RECURSIVE DedupFrom(_, _, _, _)
DedupFrom(cs, i, seen, unique) ==
    IF i > Len(cs) THEN unique
    ELSE LET c == cs[i]
             key == DedupKey(c)
         IN  IF key # "" /\ key \notin seen
               THEN DedupFrom(cs, i + 1, seen \cup {key}, Append(unique, c))
             ELSE IF key = ""
               THEN DedupFrom(cs, i + 1, seen, Append(unique, c))
             ELSE DedupFrom(cs, i + 1, seen, unique)

\* lines 289-309
DeduplicateCommitments(cs) == DedupFrom(cs, 1, {}, <<>>)

\* A commitment dict of schema A (karpathy) and of schema B (murati); py is
\* the Python type of the list item
SchemaA(id, what, who, to_whom) ==
    [py |-> "dict", id |-> id, what |-> what, who |-> who,
     to_whom |-> to_whom, commitment_text |-> NONE,
     committer_label |-> NONE, recipient_label |-> NONE]

SchemaB(id, ctext, clabel, rlabel) ==
    [py |-> "dict", id |-> id, what |-> NONE, who |-> NONE,
     to_whom |-> NONE, commitment_text |-> ctext,
     committer_label |-> clabel, recipient_label |-> rlabel]

\* The records the lists are drawn from: the same promise in both schemas and
\* in another spelling, promises that differ in one field, fields that hold
\* the key's separator, and records with nothing in any key field.
DedupPool ==
    { SchemaA(1, "call bob", "SPEAKER_ME", "Bob"),
      SchemaA(2, " Call Bob ", "speaker_me", "BOB"),
      SchemaB(3, "call bob", "SPEAKER_ME", "Bob"),
      SchemaA(4, "call bob", "SPEAKER_ME", "Ann"),
      SchemaA(5, "call bob", "Ann", "Bob"),
      SchemaA(6, "send it", "SPEAKER_ME", "Bob"),
      SchemaA(7, "a|b", "c", ""),
      SchemaB(8, "a", "b|c", NONE),
      SchemaA(9, "", "", ""),
      SchemaB(10, NONE, NONE, NONE) }

RECURSIVE ListsUpTo(_, _)
ListsUpTo(S, n) ==
    IF n = 0 THEN {<<>>}
    ELSE LET shorter == ListsUpTo(S, n - 1)
         IN  shorter \cup {Append(l, x) : l \in shorter, x \in S}

DedupIdle == dd_in = <<>> /\ dd_out = <<>> /\ dd_pc = "idle"

DedupInit ==
    /\ dd_in \in ListsUpTo(DedupPool, MaxDedupLen)
    /\ dd_out = <<>>
    /\ dd_pc = "call"

DedupCall ==
    /\ dd_pc = "call"
    /\ dd_out' = DeduplicateCommitments(dd_in)
    /\ dd_pc' = "done"
    /\ UNCHANGED dd_in
    /\ UNCHANGED exceptDedup

\* the caller hands the list it got back to the deduplicator once more
DedupRecall ==
    /\ dd_pc = "done"
    /\ dd_in' = dd_out
    /\ dd_out' = DeduplicateCommitments(dd_out)
    /\ dd_pc' = "again"
    /\ UNCHANGED exceptDedup

DedupNext == DedupCall \/ DedupRecall


----------------------------------------------------------------------------
(* The similarity signals (src/evaluation/evaluate.py).  A similarity or a
   score is an exact fraction <<numerator, denominator>> in lowest terms;
   Python computes the nearest doubles of the same values. *)

RECURSIVE GCD(_, _)
GCD(a, b) == IF b = 0 THEN a ELSE GCD(b, a % b)

Frac(n, d) == LET g == GCD(n, d) IN <<n \div g, d \div g>>

FracLess(x, y) == x[1] * y[2] < y[1] * x[2]

\* x >= pct / 100
FracAtLeast(x, pct) == 100 * x[1] >= pct * x[2]

\* str.split(): the whitespace-separated words of s
RECURSIVE Words(_, _, _)
Words(s, i, cur) ==
    IF i >= Len(s) THEN (IF cur = "" THEN <<>> ELSE <<cur>>)
    ELSE IF Ch(s, i) \in WhiteSpace
         THEN (IF cur = "" THEN <<>> ELSE <<cur>>) \o Words(s, i + 1, "")
         ELSE Words(s, i + 1, cur \o Ch(s, i))

\* " ".join(words)
RECURSIVE JoinSpace(_)
JoinSpace(ws) ==
    IF ws = <<>> THEN ""
    ELSE IF Len(ws) = 1 THEN ws[1]
    ELSE ws[1] \o " " \o JoinSpace(Tail(ws))

\* lines 240-244
Normalize(s) ==
    IF s = "" \/ s = NONE THEN "" ELSE JoinSpace(Words(Lower(Strip(s)), 0, ""))

\* the length of the longest common run of a from i and b from j, within
\* a[..ahi) and b[..bhi)
RECURSIVE RunLen(_, _, _, _, _, _)
RunLen(a, b, i, j, ahi, bhi) ==
    IF i < ahi /\ j < bhi /\ Ch(a, i) = Ch(b, j)
    THEN 1 + RunLen(a, b, i + 1, j + 1, ahi, bhi) ELSE 0

\* difflib's find_longest_match on a[alo:ahi], b[blo:bhi] (no junk): the
\* longest matching block, the earliest in a and then the earliest in b
LongestMatch(a, b, alo, ahi, blo, bhi) ==
    LET cand == {<<i, j>> \in (alo..(ahi - 1)) \X (blo..(bhi - 1)) :
                    Ch(a, i) = Ch(b, j)}
        len(c) == RunLen(a, b, c[1], c[2], ahi, bhi)
    IN  IF cand = {} THEN <<alo, blo, 0>>
        ELSE LET best == CHOOSE c \in cand : \A d \in cand :
                            \/ len(d) < len(c)
                            \/ /\ len(d) = len(c)
                               /\ \/ c[1] < d[1]
                                  \/ c[1] = d[1] /\ c[2] <= d[2]
             IN  <<best[1], best[2], len(best)>>

\* difflib's get_matching_blocks: the number of matched characters
RECURSIVE Matched(_, _, _, _, _, _)
Matched(a, b, alo, ahi, blo, bhi) ==
    IF alo >= ahi \/ blo >= bhi THEN 0
    ELSE LET m == LongestMatch(a, b, alo, ahi, blo, bhi)
         IN  IF m[3] = 0 THEN 0
             ELSE m[3] + Matched(a, b, alo, m[1], blo, m[2])
                       + Matched(a, b, m[1] + m[3], ahi, m[2] + m[3], bhi)

\* SequenceMatcher(None, a, b).ratio() = 2.0 * M / T, and 1.0 when T = 0
Ratio(a, b) ==
    LET T == Len(a) + Len(b)
    IN  IF T = 0 THEN <<1, 1>>
        ELSE Frac(2 * Matched(a, b, 0, Len(a), 0, Len(b)), T)

\* lines 247-251
Similarity(a, b) ==
    IF ~Truthy(a) \/ ~Truthy(b) THEN <<0, 1>>
    ELSE Ratio(Normalize(a), Normalize(b))

StartsWith(s, pre) == Len(s) >= Len(pre) /\ SubSeq(s, 1, Len(pre)) = pre

\* sub in s
Contains(s, sub) ==
    \E i \in 0..(Len(s) - Len(sub)) : SubSeq(s, i + 1, i + Len(sub)) = sub

\* lines 254-272
SpeakerMatch(a, b) ==
    IF ~Truthy(a) \/ ~Truthy(b) THEN FALSE
    ELSE LET na == Normalize(a)
             nb == Normalize(b)
         IN  \/ na = nb
             \/ StartsWith(na, "speaker_me") /\ StartsWith(nb, "speaker_me")
             \/ Contains(nb, na) \/ Contains(na, nb)

\* lines 275-285
DeadlineMatch(a, b) ==
    IF a = NONE /\ b = NONE THEN TRUE
    ELSE IF a = NONE \/ b = NONE THEN FALSE
    ELSE FracAtLeast(Similarity(a, b), 60)

----------------------------------------------------------------------------
(* match_commitments (src/evaluation/evaluate.py) *)

QUOTE_SIMILARITY_THRESHOLD == 40
TEXT_SIMILARITY_THRESHOLD == 35
\* match_threshold = 0.25
MATCH_THRESHOLD == 25

\* a combination that always takes the near-even split
WeightedEven(wq, wt, ww, q, t, w) ==
    Frac(33 * q[1] * t[2] + 34 * t[1] * q[2] + 33 * w * q[2] * t[2],
         100 * q[2] * t[2])

\* lines 323-328: the weighted combination, weights in hundredths
Weighted(wq, wt, ww, q, t, w) ==
    Frac(wq * q[1] * t[2] + wt * t[1] * q[2] + ww * w * q[2] * t[2],
         100 * q[2] * t[2])

\* lines 314-328
PairScore(gt_c, pred_c) ==
    LET quote_sim == Similarity(gt_c.quote, pred_c.quote)
        text_sim == Similarity(gt_c.text, pred_c.text)
        who_sim == IF SpeakerMatch(gt_c.who, pred_c.who) THEN 1 ELSE 0
    IN  IF FracAtLeast(quote_sim, QUOTE_SIMILARITY_THRESHOLD)
          THEN Weighted(50, 30, 20, quote_sim, text_sim, who_sim)
        ELSE IF FracAtLeast(text_sim, TEXT_SIMILARITY_THRESHOLD)
          THEN Weighted(30, 50, 20, quote_sim, text_sim, who_sim)
        ELSE Weighted(33, 34, 33, quote_sim, text_sim, who_sim)

\* evaluate.Commitment with all its fields; None reads NONE
Commitment(who, to_whom, txt, direction, deadline, quote, unc, cond) ==
    [who |-> who, to_whom |-> to_whom, text |-> txt, direction |-> direction,
     deadline |-> deadline, quote |-> quote, uncertain |-> unc,
     conditional |-> cond]

\* a Commitment that is neither uncertain nor conditional
MkCommitment(who, to_whom, txt, direction, deadline, quote) ==
    Commitment(who, to_whom, txt, direction, deadline, quote, FALSE, FALSE)

\* The commitments the lists are drawn from: the same promise in two
\* spellings, a promise that shares half its text with it and has no quote,
\* one that shares only the speaker, and an unrelated one.
MatchPool ==
    { MkCommitment("SPEAKER_ME", "Bob", "call", "outgoing", "fri", "i do"),
      MkCommitment("Speaker_Me ", "bob", "Call", "Outgoing", NONE, "I  do"),
      MkCommitment("Bob", "SPEAKER_ME", "mail", "incoming", "mon", ""),
      MkCommitment("SPEAKER_ME_2", "", "xy", "outgoing", "fri", ""),
      MkCommitment("Ann", "", "zzz", "third_party", NONE, "yo") }

\* lines 311-331: the score of every pair of commitments the lists can hold
\* (computed once)
Scores == [gt_c \in MatchPool, pred_c \in MatchPool |-> PairScore(gt_c, pred_c)]

\* lines 358-361: the four field flags of every such pair
FieldFlags ==
    [gt_c \in MatchPool, pred_c \in MatchPool |->
        [direction_match |->
             Normalize(gt_c.direction) = Normalize(pred_c.direction),
         who_match |-> SpeakerMatch(gt_c.who, pred_c.who),
         to_whom_match |-> SpeakerMatch(gt_c.to_whom, pred_c.to_whom),
         deadline_match |-> DeadlineMatch(gt_c.deadline, pred_c.deadline)]]

\* line 339: (gt_i, pred_j, score) for every pair, row by row
RECURSIVE PairsFrom(_, _, _, _)
PairsFrom(gts, preds, i, j) ==
    IF i >= Len(gts) THEN <<>>
    ELSE IF j >= Len(preds) THEN PairsFrom(gts, preds, i + 1, 0)
    ELSE <<[gt_i |-> i, pred_j |-> j,
            score |-> Scores[gts[i + 1], preds[j + 1]]]>>
         \o PairsFrom(gts, preds, i, j + 1)

\* a sort that puts an element before the elements of equal score
InsertPointUnstable(sorted, x) ==
    Max({0} \cup {p \in 1..Len(sorted) : FracLess(x.score, sorted[p].score)})

\* where list.sort(key=score, reverse=True) puts x among the sorted elements:
\* after every element whose score is not smaller (the sort is stable)
InsertPoint(sorted, x) ==
    Max({0} \cup {p \in 1..Len(sorted) : ~FracLess(sorted[p].score, x.score)})

InsertSorted(sorted, x) ==
    LET p == InsertPoint(sorted, x)
    IN  SubSeq(sorted, 1, p) \o <<x>> \o SubSeq(sorted, p + 1, Len(sorted))

\* a pair list left in row order
SortSkipped(ps, i, sorted) == ps

\* line 340
RECURSIVE SortByScoreDesc(_, _, _)
SortByScoreDesc(ps, i, sorted) ==
    IF i > Len(ps) THEN sorted
    ELSE SortByScoreDesc(ps, i + 1, InsertSorted(sorted, ps[i]))

\* MatchResult(gt_index=i, pred_index=None); None is -1 here
Miss(i) ==
    [gt_index |-> i, pred_index |-> -1, similarity |-> <<0, 1>>,
     direction_match |-> FALSE, who_match |-> FALSE,
     to_whom_match |-> FALSE, deadline_match |-> FALSE]

\* lines 351-362: the MatchResult of the pair p of the lists gts and preds
HitOf(gts, preds, p) ==
    LET gt_c == gts[p.gt_i + 1]
        pred_c == preds[p.pred_j + 1]
        ff == FieldFlags[gt_c, pred_c]
    IN  [gt_index |-> p.gt_i, pred_index |-> p.pred_j, similarity |-> p.score,
         direction_match |-> ff.direction_match,
         who_match |-> ff.who_match,
         to_whom_match |-> ff.to_whom_match,
         deadline_match |-> ff.deadline_match]

Hit(p) == HitOf(ground_truth, predictions, p)

\* the elements of the integer set S in ascending order
RECURSIVE Ascending(_)
Ascending(S) ==
    IF S = {} THEN <<>>
    ELSE LET lo == CHOOSE x \in S : \A y \in S : x <= y
         IN  <<lo>> \o Ascending(S \ {lo})

\* lines 368-370: a miss for every reference index not used, in index order
MissesFor(n_gt, used) ==
    LET idx == Ascending((0..(n_gt - 1)) \ used)
    IN  [k \in 1..Len(idx) |-> Miss(idx[k])]

\* every predicted index reported unmatched, the used ones included
UnmatchedForAll(n_pred, used) == Ascending(0..(n_pred - 1))

\* line 373
UnmatchedFor(n_pred, used) == Ascending((0..(n_pred - 1)) \ used)

MatchIdle ==
    /\ ground_truth = <<>> /\ predictions = <<>> /\ all_pairs = <<>>
    /\ scan = 0 /\ used_gt = {} /\ used_pred = {} /\ matches = <<>>
    /\ unmatched_preds = <<>> /\ mpc = "idle"

MatchInit ==
    /\ ground_truth \in ListsUpTo(MatchPool, MaxGt)
    /\ predictions \in ListsUpTo(MatchPool, MaxPred)
    /\ all_pairs = <<>>
    /\ scan = 0
    /\ used_gt = {}
    /\ used_pred = {}
    /\ matches = <<>>
    /\ unmatched_preds = <<>>
    /\ mpc = "call"

\* lines 298-343: the degenerate cases, or the sorted pair list
MatchCall ==
    /\ mpc = "call"
    /\ \/ /\ ground_truth = <<>>
          /\ matches' = <<>>
          /\ unmatched_preds' = UnmatchedFor(Len(predictions), {})
          /\ mpc' = "done"
          /\ UNCHANGED <<all_pairs, scan>>
       \/ /\ ground_truth # <<>>
          /\ predictions = <<>>
          /\ matches' = MissesFor(Len(ground_truth), {})
          /\ unmatched_preds' = <<>>
          /\ mpc' = "done"
          /\ UNCHANGED <<all_pairs, scan>>
       \/ /\ ground_truth # <<>>
          /\ predictions # <<>>
          /\ all_pairs' =
                 SortByScoreDesc(PairsFrom(ground_truth, predictions, 0, 0),
                                 1, <<>>)
          /\ scan' = 1
          /\ mpc' = "scan"
          /\ UNCHANGED <<matches, unmatched_preds>>
    /\ UNCHANGED <<ground_truth, predictions, used_gt, used_pred>>
    /\ UNCHANGED exceptMatch

\* lines 367-375: what follows the scan
Finish ==
    /\ matches' = matches \o MissesFor(Len(ground_truth), used_gt)
    /\ unmatched_preds' = UnmatchedFor(Len(predictions), used_pred)
    /\ mpc' = "done"
    /\ UNCHANGED <<ground_truth, predictions, all_pairs, scan, used_gt,
                   used_pred>>

\* line 348
BelowThreshold(score) == ~FracAtLeast(score, MATCH_THRESHOLD)

\* a check that looks at the reference index only
ClaimedGtOnly(p) == p.gt_i \in used_gt

\* line 346
Claimed(p) == p.gt_i \in used_gt \/ p.pred_j \in used_pred

\* lines 345-365: one iteration of the greedy scan
ScanPair ==
    /\ mpc = "scan"
    /\ scan <= Len(all_pairs)
    /\ LET p == all_pairs[scan]
       IN  \/ /\ Claimed(p)
              /\ scan' = scan + 1
              /\ UNCHANGED <<used_gt, used_pred, matches, unmatched_preds,
                             mpc, ground_truth, predictions, all_pairs>>
           \/ /\ ~Claimed(p)
              /\ BelowThreshold(p.score)
              /\ Finish
           \/ /\ ~Claimed(p)
              /\ ~BelowThreshold(p.score)
              /\ matches' = Append(matches, Hit(p))
              /\ used_gt' = used_gt \cup {p.gt_i}
              /\ used_pred' = used_pred \cup {p.pred_j}
              /\ scan' = scan + 1
              /\ UNCHANGED <<unmatched_preds, mpc, ground_truth, predictions,
                             all_pairs>>
    /\ UNCHANGED exceptMatch

\* the scan ran through the whole list
ScanEnd ==
    /\ mpc = "scan"
    /\ scan > Len(all_pairs)
    /\ Finish
    /\ UNCHANGED exceptMatch

MatchNext == MatchCall \/ ScanPair \/ ScanEnd

\* lines 345-375 as a function: the scan from pair k on, then the misses and
\* the unmatched predictions; what the steps above reach in mpc = "done"
RECURSIVE ScanFrom(_, _, _, _, _, _, _)
ScanFrom(gts, preds, pairs, k, ugt, upred, ms) ==
    IF k > Len(pairs) \/ ( /\ pairs[k].gt_i \notin ugt
                           /\ pairs[k].pred_j \notin upred
                           /\ BelowThreshold(pairs[k].score) )
    THEN [matches |-> ms \o MissesFor(Len(gts), ugt),
          unmatched_preds |-> UnmatchedFor(Len(preds), upred)]
    ELSE IF pairs[k].gt_i \in ugt \/ pairs[k].pred_j \in upred
    THEN ScanFrom(gts, preds, pairs, k + 1, ugt, upred, ms)
    ELSE ScanFrom(gts, preds, pairs, k + 1, ugt \cup {pairs[k].gt_i},
                  upred \cup {pairs[k].pred_j},
                  Append(ms, HitOf(gts, preds, pairs[k])))

\* lines 288-375: match_commitments(ground_truth, predictions)
\* a matcher that reports no prediction unmatched when there is no
\* reference
MatchCommitmentsDropsPreds(gts, preds) ==
    IF gts = <<>>
    THEN [matches |-> <<>>, unmatched_preds |-> <<>>]
    ELSE IF preds = <<>>
    THEN [matches |-> MissesFor(Len(gts), {}), unmatched_preds |-> <<>>]
    ELSE ScanFrom(gts, preds,
                  SortByScoreDesc(PairsFrom(gts, preds, 0, 0), 1, <<>>),
                  1, {}, {}, <<>>)

MatchCommitments(gts, preds) ==
    IF gts = <<>>
    THEN [matches |-> <<>>, unmatched_preds |-> UnmatchedFor(Len(preds), {})]
    ELSE IF preds = <<>>
    THEN [matches |-> MissesFor(Len(gts), {}), unmatched_preds |-> <<>>]
    ELSE ScanFrom(gts, preds,
                  SortByScoreDesc(PairsFrom(gts, preds, 0, 0), 1, <<>>),
                  1, {}, {}, <<>>)

\* lines 394-396 (evaluate_session)
TruePositives == Cardinality({k \in 1..Len(matches) : matches[k].pred_index # -1})
FalseNegatives == Cardinality({k \in 1..Len(matches) : matches[k].pred_index = -1})
FalsePositives == Len(unmatched_preds)

----------------------------------------------------------------------------
(* The inference service and _call_ollama (src/src/commitment_extractor.py).
   A transcript is known to the orchestrator by its length, its trimmed
   length and the chunks chunk_transcript returns for it. *)

MIN_TRANSCRIPT_CHARS == 50
CHUNK_MAX_CHARS == 25000

\* an item of a `commitments` list that is a JSON string, not an object
NonRecord ==
    [py |-> "str", id |-> 0, what |-> NONE, who |-> NONE, to_whom |-> NONE,
     commitment_text |-> NONE, committer_label |-> NONE,
     recipient_label |-> NONE]

\* What json.loads makes of a text:
\*   invalid  - it raises JSONDecodeError (prose, a truncated object)
\*   array    - a JSON value that is not an object
\*   no_key   - an object without `commitments`
\*   not_list - an object whose `commitments` is not a list
\*   object   - an object with a `commitments` list
JsonText(kind, cs, notes) ==
    [kind |-> kind, commitments |-> cs, extraction_notes |-> notes]

CommitmentsA ==
    << SchemaA(7, "call bob", "SPEAKER_ME", "Bob"),
       SchemaA(7, "send it", "SPEAKER_ME", "Bob") >>

CommitmentsB ==
    << SchemaB(1, " Call Bob ", "speaker_me", "bob"),
       SchemaB(2, "pay ann", "Bob", "Ann") >>

\* The texts a model response is made of: JSON documents, prose, and an
\* object cut off inside its second commitment
DocEmptyList == "{\"commitments\": []}"

DocA ==
    "{\"commitments\": [{\"id\": 7, \"what\": \"call bob\", "
    \o "\"who\": \"SPEAKER_ME\", \"to_whom\": \"Bob\"}, {\"id\":"
    \o " 7, \"what\": \"send it\", \"who\": \"SPEAKER_ME\", \"to"
    \o "_whom\": \"Bob\"}]}"

DocB ==
    "{\"commitments\": [{\"id\": 1, \"commitment_text\": \" C"
    \o "all Bob \", \"committer_label\": \"speaker_me\", \"recip"
    \o "ient_label\": \"bob\"}, {\"id\": 2, \"commitment_text\":"
    \o " \"pay ann\", \"committer_label\": \"Bob\", \"recipient_"
    \o "label\": \"Ann\"}], \"extraction_notes\": \"one ambiguit"
    \o "y\"}"

DocNonRecord == "{\"commitments\": [\"call bob\"]}"

DocThinkQuote ==
    "{\"commitments\": [], \"extraction_notes\": \"said <thin"
    \o "k>hm</think> twice\"}"

DocOne ==
    "{\"commitments\": [{\"id\": 1, \"what\": \"a\"}]}"

DocNoKey == "{\"summary\": \"test\"}"

DocNotList == "{\"commitments\": null}"

DocArray == "[]"

DocProse == "not json at all"

DocTruncated ==
    "{\"commitments\": [{\"id\": 1, \"what\": \"a\"}, {\"id\""
    \o ": "

\* json.loads on the texts of the model: the documents it accepts with the
\* value it returns for each; it raises JSONDecodeError on any other text
JsonDocuments ==
    { [text |-> DocEmptyList, value |-> JsonText("object", <<>>, NONE)],
      [text |-> DocA, value |-> JsonText("object", CommitmentsA, NONE)],
      [text |-> DocB,
       value |-> JsonText("object", CommitmentsB, "one ambiguity")],
      [text |-> DocNonRecord,
       value |-> JsonText("object", <<NonRecord>>, NONE)],
      [text |-> DocThinkQuote,
       value |-> JsonText("object", <<>>, "said <think>hm</think> twice")],
      [text |-> DocOne,
       value |-> JsonText("object", <<SchemaA(1, "a", NONE, NONE)>>, NONE)],
      [text |-> DocNoKey, value |-> JsonText("no_key", <<>>, NONE)],
      [text |-> DocNotList, value |-> JsonText("not_list", <<>>, NONE)],
      [text |-> DocArray, value |-> JsonText("array", <<>>, NONE)] }

\* The three backquotes of a Markdown fence line.  A TLA+ string cannot hold
\* a backquote: the model writes ^ for it, a character no other text of the
\* model contains.
FENCE == "^^^"

\* A message content: the text, after a <think>...</think> block
\* (think = "closed"), after an unclosed <think> (think = "open"), and/or
\* between fence lines
Content(think, fence, json) ==
    (IF think = "closed" THEN "<think>hm</think>\n"
     ELSE IF think = "open" THEN "<think>hm\n"
     ELSE "")
    \o (IF fence THEN FENCE \o "json\n" \o json \o "\n" \o FENCE ELSE json)

Plain(json) == Content("none", FALSE, json)

\* What the service does on one request:
\*   urlerror, timeout - urlopen raises URLError / TimeoutError
\*   not_json          - the body is not JSON
\*   json_array        - the body is JSON, not an object
\*   no_message        - the body is an object without `message`
\*   null_content      - the body is an object whose message.content is null
\*   message           - the body is an object with message.content
Response(http, content) == [http |-> http, content |-> content]

EmptyContent == ""

Responses ==
    { Response("urlerror", EmptyContent),
      Response("timeout", EmptyContent),
      Response("not_json", EmptyContent),
      Response("json_array", EmptyContent),
      Response("no_message", EmptyContent),
      Response("null_content", EmptyContent),
      Response("message", Plain(DocProse)),
      Response("message", Plain(DocNoKey)),
      Response("message", Plain(DocEmptyList)),
      Response("message", " " \o Plain(DocA) \o "\n"),
      Response("message", Content("closed", TRUE, DocB)),
      Response("message", Plain(DocNonRecord)) }

\* the outcome of a call: a value returned or an exception raised
Returns(v) == [raises |-> FALSE, exc |-> "", value |-> v]
Raises(exc) == [raises |-> TRUE, exc |-> exc, value |-> EmptyContent]

\* _call_ollama's `return None`
NoText == NONE

\* lines 169-184
CallOllama(resp) ==
    IF resp.http \in {"urlerror", "timeout"} THEN Returns(NoText)
    ELSE IF resp.http = "not_json" THEN Raises("JSONDecodeError")
    ELSE IF resp.http \in {"json_array", "null_content"}
      THEN Raises("AttributeError")
    ELSE IF resp.http = "no_message" THEN Returns(Strip(EmptyContent))
    ELSE Returns(Strip(resp.content))

\* s.find(sub, from): the lowest index at or after `from` where sub occurs,
\* or -1
Find(s, sub, from) ==
    LET hits == {i \in from..(Len(s) - Len(sub)) :
                     SubSeq(s, i + 1, i + Len(sub)) = sub}
    IN  IF hits = {} THEN -1
        ELSE CHOOSE i \in hits : \A j \in hits : i <= j

\* the end of the run of whitespace that starts at index i
SkipSpace(s, i) ==
    CHOOSE j \in i..Len(s) :
        /\ \A k \in i..(j - 1) : Ch(s, k) \in WhiteSpace
        /\ j = Len(s) \/ Ch(s, j) \notin WhiteSpace

\* line 196: re.search(r"<think>.*?</think>\s*", text, re.DOTALL).end(), or
\* -1 when nothing matches: the first <think>, up to the first </think>
\* after it and the whitespace that follows
ThinkMatchEnd(txt) ==
    LET open == Find(txt, "<think>", 0)
        close == IF open = -1 THEN -1 ELSE Find(txt, "</think>", open + 7)
    IN  IF close = -1 THEN -1 ELSE SkipSpace(txt, close + 8)

\* lines 195-198
StripThink(txt) ==
    IF Contains(txt, "<think>") /\ ThinkMatchEnd(txt) # -1
    THEN Strip(SubSeq(txt, ThinkMatchEnd(txt) + 1, Len(txt)))
    ELSE txt

\* text.split("\n")
RECURSIVE SplitLines(_)
SplitLines(s) ==
    LET i == Find(s, "\n", 0)
    IN  IF i = -1 THEN <<s>>
        ELSE <<SubSeq(s, 1, i)>> \o SplitLines(SubSeq(s, i + 2, Len(s)))

\* "\n".join(ls)
RECURSIVE JoinLines(_)
JoinLines(ls) ==
    IF ls = <<>> THEN ""
    ELSE IF Len(ls) = 1 THEN ls[1]
    ELSE ls[1] \o "\n" \o JoinLines(Tail(ls))

NotFenceLine(l) == ~StartsWith(l, FENCE)

\* lines 201-203: the fence lines are dropped when the text starts with one
StripFences(txt) ==
    IF StartsWith(txt, FENCE)
    THEN JoinLines(SelectSeq(SplitLines(txt), NotFenceLine))
    ELSE txt

\* lines 207-210: json.loads(txt), an "invalid" value standing for
\* JSONDecodeError
Loads(txt) ==
    IF \E d \in JsonDocuments : d.text = txt
    THEN (CHOOSE d \in JsonDocuments : d.text = txt).value
    ELSE JsonText("invalid", <<>>, NONE)

NoParse == JsonText("<None>", <<>>, NONE)

\* lines 187-216: the parsed object, or NoParse for None
ParseJson(raw) ==
    LET parsed == Loads(Strip(StripFences(StripThink(raw))))
    IN  IF parsed.kind = "object" THEN parsed ELSE NoParse

\* The texts handed to _parse_json: every text of the model, bare, after a
\* closed or an unclosed think block, between fence lines, and with
\* whitespace before or after
ParseDocs ==
    { DocEmptyList, DocA, DocB, DocNonRecord, DocThinkQuote, DocOne, DocNoKey,
      DocNotList, DocArray, DocProse, DocTruncated, "" }

ParseSources ==
    [think : {"none", "closed", "open"}, fence : BOOLEAN,
     pad : {"none", "before", "after"}, doc : ParseDocs]

RawOf(src) ==
    (IF src.pad = "before" THEN " " ELSE "")
    \o Content(src.think, src.fence, src.doc)
    \o (IF src.pad = "after" THEN "\n" ELSE "")

NoSource == [think |-> "none", fence |-> FALSE, pad |-> "none", doc |-> ""]

ParseIdle ==
    pj_src = NoSource /\ pj_raw = "" /\ pj_out = NoParse /\ pj_pc = "idle"

ParseInit ==
    /\ pj_src \in ParseSources
    /\ pj_raw = RawOf(pj_src)
    /\ pj_out = NoParse
    /\ pj_pc = "call"

ParseCall ==
    /\ pj_pc = "call"
    /\ pj_out' = ParseJson(pj_raw)
    /\ pj_pc' = "done"
    /\ UNCHANGED <<pj_src, pj_raw>>
    /\ UNCHANGED exceptParse

ParseNext == ParseCall

----------------------------------------------------------------------------
(* _extract_single and extract_commitments *)

\* a result dict; a key it lacks reads NONE (_chunks: 0)
Result(cs, notes, n) ==
    [commitments |-> cs, extraction_notes |-> notes, chunks |-> n]

Unavailable == Result(<<>>, "Ollama unavailable", 0)
Failed == Result(<<>>, "extraction failed after 2 attempts", 0)
TooShort == Result(<<>>, "transcript too short", 0)
NoResult == Result(<<>>, NONE, 0)

\* lines 233-236
PromptOf(k) == IF k = 1 THEN "karpathy" ELSE "murati"
LastAttempt == 2

\* lines 261-270: the two counts read c.get of every item
LogCountsRaise(cs) == \E k \in 1..Len(cs) : cs[k].py # "dict"

\* a loop that gives up only on the response of the last prompt, an
\* unreachable service included
IterationRetriesUnavailable(k, resp) ==
    LET raw == CallOllama(resp)
    IN  IF raw.raises THEN [kind |-> "raise", exc |-> raw.exc, value |-> NoResult]
        ELSE IF raw.value = NoText \/ ParseJson(raw.value) = NoParse
          THEN IF k < LastAttempt
                 THEN [kind |-> "next", exc |-> "", value |-> NoResult]
                 ELSE [kind |-> "return", exc |-> "", value |-> Failed]
        ELSE LET parsed == ParseJson(raw.value)
             IN  [kind |-> "return", exc |-> "",
                  value |-> Result(parsed.commitments,
                                   parsed.extraction_notes, 0)]

\* a loop that returns the failure result where the parsed object is due
IterationDropsParsed(k, resp) ==
    LET raw == CallOllama(resp)
    IN  IF raw.raises THEN [kind |-> "raise", exc |-> raw.exc, value |-> NoResult]
        ELSE IF raw.value = NoText
          THEN [kind |-> "return", exc |-> "", value |-> Unavailable]
        ELSE IF ParseJson(raw.value) = NoParse /\ k < LastAttempt
          THEN [kind |-> "next", exc |-> "", value |-> NoResult]
        ELSE [kind |-> "return", exc |-> "", value |-> Failed]

\* lines 238-286: iteration k of _extract_single's loop on the service's
\* response: an exception, the next iteration, or the dict returned
Iteration(k, resp) ==
    LET raw == CallOllama(resp)
    IN  IF raw.raises THEN [kind |-> "raise", exc |-> raw.exc, value |-> NoResult]
        ELSE IF raw.value = NoText
          THEN [kind |-> "return", exc |-> "", value |-> Unavailable]
        ELSE LET parsed == ParseJson(raw.value)
             IN  IF parsed # NoParse
                   THEN IF LogCountsRaise(parsed.commitments)
                          THEN [kind |-> "raise", exc |-> "AttributeError",
                                value |-> NoResult]
                          ELSE [kind |-> "return", exc |-> "",
                                value |-> Result(parsed.commitments,
                                                 parsed.extraction_notes, 0)]
                 ELSE IF k < LastAttempt
                   THEN [kind |-> "next", exc |-> "", value |-> NoResult]
                   ELSE [kind |-> "return", exc |-> "", value |-> Failed]

\* what the call log keeps of an iteration
OutcomeOf(k, resp) ==
    LET raw == CallOllama(resp)
    IN  IF raw.raises THEN "raised"
        ELSE IF raw.value = NoText THEN "unavailable"
        ELSE IF ParseJson(raw.value) = NoParse THEN "unparsed"
        ELSE "parsed"

\* lines 353-355, 366-367: c["id"] = base + j + 1 for the j-th item
Renumber(cs, base) == [j \in 1..Len(cs) |-> [cs[j] EXCEPT !.id = base + j]]

\* str(i) for a chunk number
DecimalDigits == "0123456789"
Str(i) == IF i < 10 THEN Ch(DecimalDigits, i)
          ELSE Ch(DecimalDigits, i \div 10) \o Ch(DecimalDigits, i % 10)

\* "; ".join(parts)
RECURSIVE JoinSemi(_)
JoinSemi(parts) ==
    IF parts = <<>> THEN ""
    ELSE IF Len(parts) = 1 THEN parts[1]
    ELSE parts[1] \o "; " \o JoinSemi(Tail(parts))

\* lines 359-360
NotesAfter(parts, i, r) ==
    IF Truthy(r.extraction_notes)
    THEN Append(parts, "chunk " \o Str(i + 1) \o ": " \o r.extraction_notes)
    ELSE parts

\* a merge that leaves the deduplicated records the ids the chunk loop gave
\* them
MergedKeepsIds(all, parts, n) ==
    LET unique == DeduplicateCommitments(all)
    IN  Result(unique, IF parts = <<>> THEN NONE ELSE JoinSemi(parts), n)

\* lines 362-378
Merged(all, parts, n) ==
    LET unique == Renumber(DeduplicateCommitments(all), 0)
    IN  Result(unique, IF parts = <<>> THEN NONE ELSE JoinSemi(parts), n)

\* the transcripts: empty, short once trimmed, of the least length accepted,
\* of the greatest length that is one chunk, and longer ones, which
\* chunk_transcript splits into two chunks or more
Transcripts ==
    { [raw_len |-> 0, strip_len |-> 0, n_chunks |-> 0],
      [raw_len |-> 60, strip_len |-> 49, n_chunks |-> 0],
      [raw_len |-> 50, strip_len |-> 50, n_chunks |-> 1],
      [raw_len |-> 25000, strip_len |-> 25000, n_chunks |-> 1] }
    \cup { [raw_len |-> 25001, strip_len |-> 25001, n_chunks |-> n] :
               n \in 2..MaxChunks }

ExtractIdle ==
    /\ transcript = [raw_len |-> 0, strip_len |-> 0, n_chunks |-> 0]
    /\ chunk_i = 0 /\ attempt = 0 /\ calls = <<>>
    /\ all_commitments = <<>> /\ notes_parts = <<>>
    /\ result = NoResult /\ raised = "" /\ xpc = "idle"

ExtractInit ==
    /\ transcript \in Transcripts
    /\ chunk_i = 0
    /\ attempt = 0
    /\ calls = <<>>
    /\ all_commitments = <<>>
    /\ notes_parts = <<>>
    /\ result = NoResult
    /\ raised = ""
    /\ xpc = "call"

\* a length check on the untrimmed transcript
ExtractCallUntrimmed ==
    /\ xpc = "call"
    /\ \/ /\ transcript.raw_len < MIN_TRANSCRIPT_CHARS
          /\ result' = TooShort
          /\ xpc' = "returned"
          /\ UNCHANGED attempt
       \/ /\ ~(transcript.raw_len < MIN_TRANSCRIPT_CHARS)
          /\ attempt' = 1
          /\ xpc' = "attempt"
          /\ UNCHANGED result
    /\ UNCHANGED <<transcript, chunk_i, calls, all_commitments, notes_parts,
                   raised>>
    /\ UNCHANGED exceptExtract

\* lines 330-347: the length check, then the first chunk's first attempt
ExtractCall ==
    /\ xpc = "call"
    /\ \/ /\ transcript.raw_len = 0 \/ transcript.strip_len < MIN_TRANSCRIPT_CHARS
          /\ result' = TooShort
          /\ xpc' = "returned"
          /\ UNCHANGED attempt
       \/ /\ ~(transcript.raw_len = 0 \/ transcript.strip_len < MIN_TRANSCRIPT_CHARS)
          /\ attempt' = 1
          /\ xpc' = "attempt"
          /\ UNCHANGED result
    /\ UNCHANGED <<transcript, chunk_i, calls, all_commitments, notes_parts,
                   raised>>
    /\ UNCHANGED exceptExtract

\* a loop that stops at the first chunk whose extraction left a note
AfterChunkAborts(r) ==
    IF transcript.n_chunks = 1
    THEN /\ result' = r
         /\ xpc' = "returned"
         /\ UNCHANGED <<chunk_i, attempt, all_commitments, notes_parts>>
    ELSE LET all == all_commitments \o Renumber(r.commitments, Len(all_commitments))
             parts == NotesAfter(notes_parts, chunk_i, r)
         IN  /\ all_commitments' = all
             /\ notes_parts' = parts
             /\ IF chunk_i + 1 < transcript.n_chunks /\ r.commitments # <<>>
                  THEN /\ chunk_i' = chunk_i + 1
                       /\ attempt' = 1
                       /\ UNCHANGED <<result, xpc>>
                  ELSE /\ result' = Merged(all, parts, transcript.n_chunks)
                       /\ xpc' = "returned"
                       /\ UNCHANGED <<chunk_i, attempt>>

\* lines 335-336, 349-378: what extract_commitments does with the dict r that
\* _extract_single returned for the current chunk
AfterChunk(r) ==
    IF transcript.n_chunks = 1
    THEN /\ result' = r
         /\ xpc' = "returned"
         /\ UNCHANGED <<chunk_i, attempt, all_commitments, notes_parts>>
    ELSE LET all == all_commitments \o Renumber(r.commitments, Len(all_commitments))
             parts == NotesAfter(notes_parts, chunk_i, r)
         IN  /\ all_commitments' = all
             /\ notes_parts' = parts
             /\ IF chunk_i + 1 < transcript.n_chunks
                  THEN /\ chunk_i' = chunk_i + 1
                       /\ attempt' = 1
                       /\ UNCHANGED <<result, xpc>>
                  ELSE /\ result' = Merged(all, parts, transcript.n_chunks)
                       /\ xpc' = "returned"
                       /\ UNCHANGED <<chunk_i, attempt>>

\* lines 238-286 and what follows the return: one request to the service for
\* the current chunk, answered by resp
ServiceCall ==
    /\ xpc = "attempt"
    /\ \E resp \in Responses :
         LET it == Iteration(attempt, resp)
         IN  /\ calls' = Append(calls, [chunk |-> chunk_i,
                                        prompt |-> PromptOf(attempt),
                                        outcome |-> OutcomeOf(attempt, resp),
                                        response |-> resp])
             /\ \/ /\ it.kind = "raise"
                   /\ raised' = it.exc
                   /\ xpc' = "raised"
                   /\ UNCHANGED <<chunk_i, attempt, all_commitments,
                                  notes_parts, result>>
                \/ /\ it.kind = "next"
                   /\ attempt' = attempt + 1
                   /\ UNCHANGED <<chunk_i, all_commitments, notes_parts,
                                  result, raised, xpc>>
                \/ /\ it.kind = "return"
                   /\ AfterChunk(it.value)
                   /\ UNCHANGED raised
    /\ UNCHANGED transcript
    /\ UNCHANGED exceptExtract

ExtractNext == ExtractCall \/ ServiceCall

----------------------------------------------------------------------------
(* Database._normalize_commitment and Database.insert_commitments
   (src/src/database.py); Commitment.from_dict and evaluate_session
   (src/evaluation/evaluate.py).  A raw commitment dict is a function from the
   keys it has to Python values. *)

\* Python values: None, a str, a float (in hundredths), a bool
PyNone == [t |-> "None", s |-> "", n |-> 0]
PyStr(s) == [t |-> "str", s |-> s, n |-> 0]
PyFloat(h) == [t |-> "float", s |-> "", n |-> h]
PyBool(b) == [t |-> "bool", s |-> "", n |-> IF b THEN 1 ELSE 0]

\* bool(v)
TruthyV(v) ==
    IF v.t = "None" THEN FALSE
    ELSE IF v.t = "str" THEN v.s # ""
    ELSE v.n # 0

\* a bool or a float as a number, in hundredths
Number(v) == IF v.t = "bool" THEN 100 * v.n ELSE v.n

\* a or b
OrV(a, b) == IF TruthyV(a) THEN a ELSE b

\* d.get(k) and d.get(k, default)
Get(d, k) == IF k \in DOMAIN d THEN d[k] ELSE PyNone
GetOr(d, k, default) == IF k \in DOMAIN d THEN d[k] ELSE default

\* database.py line 112 and lines 349-353, 375
DIRECTIONS == {"outgoing", "incoming", "third_party"}

\* database.py line 121
DEADLINE_TYPES == {"explicit_date", "relative_day", "relative_week",
                   "relative_month", "implied_urgent", "none"}

\* database.py line 379 and evaluate.py line 114, in hundredths
DB_CONFIDENCE_THRESHOLD == 80
EVAL_CONFIDENCE_THRESHOLD == 50

\* the dict _normalize_commitment returns, with None everywhere
NoRow ==
    [direction |-> PyNone, who_label |-> PyNone, who_name |-> PyNone,
     to_label |-> PyNone, to_name |-> PyNone, text |-> PyNone,
     verbatim_quote |-> PyNone, timestamp |-> PyNone,
     deadline_raw |-> PyNone, deadline_type |-> PyNone,
     significance |-> PyNone, uncertain |-> 0]

\* what _normalize_commitment does: returns a dict, returns None, or raises
Normalized(row) == [kind |-> "row", exc |-> "", row |-> row]
NormalizedNone == [kind |-> "none", exc |-> "", row |-> NoRow]
NormalizeRaises(exc) == [kind |-> "raise", exc |-> exc, row |-> NoRow]

\* database.py lines 344-397
NormalizeCommitment(raw) ==
    IF "type" \in DOMAIN raw /\ "what" \in DOMAIN raw
    THEN LET direction == GetOr(raw, "type", PyStr(""))
         IN  IF ~(direction.t = "str" /\ direction.s \in DIRECTIONS)
               THEN NormalizedNone
             ELSE Normalized(
                      [direction |-> direction,
                       who_label |-> GetOr(raw, "who", PyStr("")),
                       who_name |-> Get(raw, "who_name"),
                       to_label |-> Get(raw, "to_whom"),
                       to_name |-> Get(raw, "to_whom_name"),
                       text |-> GetOr(raw, "what", PyStr("")),
                       verbatim_quote |-> Get(raw, "quote"),
                       timestamp |-> Get(raw, "timestamp"),
                       deadline_raw |-> Get(raw, "deadline"),
                       deadline_type |-> PyNone,
                       significance |-> PyNone,
                       uncertain |->
                           IF TruthyV(Get(raw, "uncertain")) THEN 1 ELSE 0])
    ELSE IF "direction" \in DOMAIN raw /\ "commitment_text" \in DOMAIN raw
    THEN LET direction == GetOr(raw, "direction", PyStr(""))
             confidence == Get(raw, "commitment_confidence")
         IN  IF ~(direction.t = "str" /\ direction.s \in DIRECTIONS)
               THEN NormalizedNone
             \* `confidence < 0.8` of a str and a float
             ELSE IF confidence.t = "str" THEN NormalizeRaises("TypeError")
             ELSE Normalized(
                      [direction |-> direction,
                       who_label |-> GetOr(raw, "committer_label", PyStr("")),
                       who_name |-> Get(raw, "committer_name"),
                       to_label |-> Get(raw, "recipient_label"),
                       to_name |-> Get(raw, "recipient_name"),
                       text |-> GetOr(raw, "commitment_text", PyStr("")),
                       verbatim_quote |-> Get(raw, "verbatim_quote"),
                       timestamp |-> Get(raw, "timestamp"),
                       deadline_raw |-> Get(raw, "deadline_raw"),
                       deadline_type |-> Get(raw, "deadline_type"),
                       significance |-> PyNone,
                       uncertain |->
                           IF \/ /\ confidence.t # "None"
                                 /\ Number(confidence) < DB_CONFIDENCE_THRESHOLD
                              \/ TruthyV(Get(raw, "conditional"))
                           THEN 1 ELSE 0])
    ELSE NormalizedNone

\* database.py lines 109-127: the NOT NULL and CHECK constraints of the
\* commitments table on a row
RowAccepted(row) ==
    /\ row.direction.t = "str" /\ row.direction.s \in DIRECTIONS
    /\ row.who_label.t # "None"
    /\ row.text.t # "None"
    /\ (\/ row.deadline_type.t = "None"
        \/ /\ row.deadline_type.t = "str"
           /\ row.deadline_type.s \in DEADLINE_TYPES)
    /\ row.significance.t = "None"

\* a str or None as the Commitment holds it
Field(v) == IF v.t = "str" THEN v.s ELSE NONE

\* evaluate.py lines 81-82, 98-99: the name replaces a generic label
Resolved(label, name) ==
    IF TruthyV(name) /\ label.t = "str" /\ StartsWith(label.s, "SPEAKER_")
    THEN name ELSE label

\* evaluate.py lines 61-129
FromDict(d) ==
    LET direction == OrV(Get(d, "direction"), GetOr(d, "type", PyStr("")))
        who == OrV(Get(d, "who"), OrV(Get(d, "committer_label"),
               OrV(Get(d, "who_label"), OrV(Get(d, "agent_label"), PyStr("")))))
        who_name == OrV(Get(d, "who_name"), OrV(Get(d, "committer_name"),
                    Get(d, "agent_name")))
        to_whom == OrV(Get(d, "to_whom"), OrV(Get(d, "recipient_label"),
                   OrV(Get(d, "to_label"), OrV(Get(d, "beneficiary_label"),
                   PyStr("")))))
        to_whom_name == OrV(Get(d, "to_whom_name"), OrV(Get(d, "recipient_name"),
                        OrV(Get(d, "to_name"), Get(d, "beneficiary_name"))))
        txt == OrV(Get(d, "text"), OrV(Get(d, "what"),
               OrV(Get(d, "commitment_text"), PyStr(""))))
        quote == OrV(Get(d, "quote"), OrV(Get(d, "verbatim_quote"),
                 OrV(Get(d, "verbatim"), PyStr(""))))
        deadline == OrV(Get(d, "deadline"), Get(d, "deadline_raw"))
        confidence == Get(d, "commitment_confidence")
        uncertain == \/ TruthyV(GetOr(d, "uncertain", PyBool(FALSE)))
                     \/ /\ confidence.t \in {"float", "bool"}
                        /\ Number(confidence) < EVAL_CONFIDENCE_THRESHOLD
    IN  Commitment(Field(Resolved(who, who_name)),
                   Field(Resolved(to_whom, to_whom_name)),
                   Field(txt), Field(direction), Field(deadline), Field(quote),
                   uncertain,
                   TruthyV(GetOr(d, "conditional", PyBool(FALSE))))

\* Raw dicts of schema A (karpathy) and of schema B (murati)
RawA(type, who, what) ==
    [type |-> PyStr(type), who |-> who, what |-> what,
     to_whom |-> PyStr("Bob"), quote |-> PyStr("i do"),
     uncertain |-> PyBool(FALSE)]

RawB(direction, clabel, ctext, confidence, conditional, deadline_type) ==
    [direction |-> PyStr(direction), committer_label |-> clabel,
     commitment_text |-> ctext, recipient_label |-> PyStr("Bob"),
     commitment_confidence |-> confidence, conditional |-> conditional,
     deadline_type |-> deadline_type]

\* The raw dicts the batches are drawn from: valid ones of both schemas, a
\* dict of neither schema, unknown directions, who or text empty, None or
\* missing, confidences on both sides of both thresholds with and without
\* the conditional flag, a confidence that is a string, and a deadline type
\* the prompt does not list.
RawPool ==
    { RawA("outgoing", PyStr("SPEAKER_ME"), PyStr("call bob")),
      RawA("outgoing", PyStr(""), PyStr("test")),
      RawA("incoming", PyStr("SPEAKER_ME"), PyStr("")),
      RawA("outgoing", PyNone, PyStr("pay ann")),
      RawA("promise", PyStr("Ann"), PyStr("pay bob")),
      [random_key |-> PyStr("random_value")],
      [type |-> PyStr("third_party"), what |-> PyStr("send it")],
      [type |-> PyStr("outgoing"), what |-> PyStr("mail"),
       who |-> PyStr("SPEAKER_ME"), who_name |-> PyStr("Ann"),
       uncertain |-> PyBool(TRUE)],
      RawB("outgoing", PyStr("Ann"), PyStr("call"), PyFloat(95),
           PyBool(FALSE), PyStr("none")),
      RawB("outgoing", PyStr("Ann"), PyStr("mail"), PyFloat(80),
           PyBool(FALSE), PyNone),
      RawB("incoming", PyStr("Bob"), PyStr("pay"), PyFloat(60),
           PyBool(FALSE), PyStr("relative_day")),
      RawB("incoming", PyStr("Bob"), PyStr("sign"), PyFloat(35),
           PyBool(FALSE), PyStr("none")),
      RawB("third_party", PyStr("Ann"), PyStr("send"), PyFloat(85),
           PyBool(TRUE), PyStr("none")),
      RawB("outgoing", PyStr("Ann"), PyStr("ship"), PyNone,
           PyBool(FALSE), PyStr("none")),
      RawB("outgoing", PyStr(""), PyStr("book"), PyFloat(90),
           PyBool(FALSE), PyStr("none")),
      RawB("sideways", PyStr("Ann"), PyStr("fly"), PyFloat(90),
           PyBool(FALSE), PyStr("none")),
      RawB("outgoing", PyStr("Ann"), PyStr("wire"), PyStr("0.5"),
           PyBool(FALSE), PyStr("none")),
      RawB("outgoing", PyStr("Ann"), PyStr("meet"), PyFloat(90),
           PyBool(FALSE), PyStr("explicit")) }

\* Reference dicts of an evaluation file: one complete, one without a who
GtPool ==
    { [who |-> PyStr("SPEAKER_ME"), to_whom |-> PyStr("Bob"),
       text |-> PyStr("call bob"), direction |-> PyStr("outgoing"),
       deadline |-> PyNone, quote |-> PyStr("i do")],
      [who |-> PyStr(""), to_whom |-> PyStr("Bob"),
       text |-> PyStr("pay ann"), direction |-> PyStr("incoming"),
       deadline |-> PyStr("fri"), quote |-> PyStr("")] }

NormIdle ==
    /\ batch = <<>> /\ ins_i = 0 /\ rows = <<>> /\ table = <<>>
    /\ ins_exc = "" /\ ipc = "idle"
    /\ gt_raw = <<>> /\ passed_gt = <<>> /\ passed_pred = <<>> /\ epc = "idle"

NormInit ==
    /\ batch \in ListsUpTo(RawPool, MaxBatch)
    /\ ins_i = 0
    /\ rows = <<>>
    /\ table = <<>>
    /\ ins_exc = ""
    /\ ipc = "call"
    /\ gt_raw \in ListsUpTo(GtPool, MaxEvalGt)
    /\ passed_gt = <<>>
    /\ passed_pred = <<>>
    /\ epc = "call"

\* database.py lines 403-406
InsertCall ==
    /\ ipc = "call"
    /\ ipc' = IF batch = <<>> THEN "returned" ELSE "loop"
    /\ UNCHANGED <<batch, ins_i, rows, table, ins_exc>>
    /\ UNCHANGED <<gt_raw, passed_gt, passed_pred, epc>>
    /\ UNCHANGED exceptNorm

\* database.py lines 407-429: one iteration of the loop over the batch
InsertRow ==
    /\ ipc = "loop"
    /\ ins_i < Len(batch)
    /\ LET normalized == NormalizeCommitment(batch[ins_i + 1])
       IN  IF normalized.kind = "raise"
             THEN /\ ins_exc' = normalized.exc
                  /\ ipc' = "raised"
                  /\ UNCHANGED <<ins_i, rows>>
           ELSE /\ ins_i' = ins_i + 1
                /\ rows' = IF \/ normalized.kind = "none"
                              \/ ~TruthyV(normalized.row.who_label)
                              \/ ~TruthyV(normalized.row.text)
                           THEN rows
                           ELSE Append(rows, normalized.row)
                /\ UNCHANGED <<ins_exc, ipc>>
    /\ UNCHANGED <<batch, table>>
    /\ UNCHANGED <<gt_raw, passed_gt, passed_pred, epc>>
    /\ UNCHANGED exceptNorm

\* database.py lines 431-442: nothing to write, or one executemany in one
\* transaction, which a row the table rejects rolls back
InsertWrite ==
    /\ ipc = "loop"
    /\ ins_i = Len(batch)
    /\ IF rows = <<>>
         THEN /\ ipc' = "returned"
              /\ UNCHANGED <<table, ins_exc>>
       ELSE IF \A k \in 1..Len(rows) : RowAccepted(rows[k])
         THEN /\ table' = table \o rows
              /\ ipc' = "returned"
              /\ UNCHANGED ins_exc
       ELSE /\ ins_exc' = "IntegrityError"
            /\ ipc' = "raised"
            /\ UNCHANGED table
    /\ UNCHANGED <<batch, ins_i, rows>>
    /\ UNCHANGED <<gt_raw, passed_gt, passed_pred, epc>>
    /\ UNCHANGED exceptNorm

\* evaluate.py lines 389-392: the two lists handed to match_commitments, the
\* predictions being the extractor's batch
EvaluateSession ==
    /\ epc = "call"
    /\ passed_gt' = [k \in 1..Len(gt_raw) |-> FromDict(gt_raw[k])]
    /\ passed_pred' = [k \in 1..Len(batch) |-> FromDict(batch[k])]
    /\ epc' = "matching"
    /\ UNCHANGED <<batch, ins_i, rows, table, ins_exc, ipc, gt_raw>>
    /\ UNCHANGED exceptNorm

NormNext == InsertCall \/ InsertRow \/ InsertWrite \/ EvaluateSession

----------------------------------------------------------------------------
(* evaluate, SessionResult and EvalReport (src/evaluation/evaluate.py).
   A metric is a fraction <<numerator, denominator>> in lowest terms. *)

\* 0.0
ZERO == <<0, 1>>

\* the counts of a SessionResult (its matches are MatchCommitments')
SessionResult(gt_count, pred_count, tp, fp, fn) ==
    [gt_count |-> gt_count, pred_count |-> pred_count, true_positives |-> tp,
     false_positives |-> fp, false_negatives |-> fn]

\* EvalReport()
EmptyReport ==
    [sessions |-> <<>>, total_gt |-> 0, total_pred |-> 0, total_tp |-> 0,
     total_fp |-> 0, total_fn |-> 0,
     direction_correct |-> 0, direction_total |-> 0,
     who_correct |-> 0, who_total |-> 0,
     to_whom_correct |-> 0, to_whom_total |-> 0,
     deadline_correct |-> 0, deadline_total |-> 0]

\* a recall computed over the predictions, not over the references
RecallOverPredictions(tp, fp, fn) ==
    IF tp + fp > 0 THEN Frac(tp, tp + fp) ELSE ZERO

\* lines 158-161 and 193-196
Precision(tp, fp, fn) == IF tp + fp > 0 THEN Frac(tp, tp + fp) ELSE ZERO

\* lines 163-166 and 198-201
Recall(tp, fp, fn) == IF tp + fn > 0 THEN Frac(tp, tp + fn) ELSE ZERO

\* lines 168-171 and 203-206: 2 * p * r / (p + r) if (p + r) > 0 else 0.0
F1(tp, fp, fn) ==
    LET pr == Precision(tp, fp, fn)
        rc == Recall(tp, fp, fn)
    IN  IF pr[1] * rc[2] + rc[1] * pr[2] > 0
        THEN Frac(2 * pr[1] * rc[1], pr[1] * rc[2] + rc[1] * pr[2])
        ELSE ZERO

\* lines 394 and 449: the positions of ms whose match has a prediction
Hits(ms) == {k \in 1..Len(ms) : ms[k].pred_index # -1}

\* lines 383-407 and 448-464: evaluate_session on the two lists of raw
\* dicts, and what evaluate tallies over the session's matches
SessionOutcome(gt_commitments, pred_commitments) ==
    LET gt_list == [k \in 1..Len(gt_commitments) |-> FromDict(gt_commitments[k])]
        pred_list ==
            [k \in 1..Len(pred_commitments) |-> FromDict(pred_commitments[k])]
        mc == MatchCommitments(gt_list, pred_list)
        ms == mc.matches
        tp == Cardinality(Hits(ms))
        fn == Len(ms) - tp
        fp == Len(mc.unmatched_preds)
    IN  [session |-> SessionResult(Len(gt_list), Len(pred_list), tp, fp, fn),
         hits |-> tp,
         direction_correct |->
             Cardinality({k \in Hits(ms) : ms[k].direction_match}),
         who_correct |-> Cardinality({k \in Hits(ms) : ms[k].who_match}),
         to_whom_correct |->
             Cardinality({k \in Hits(ms) : ms[k].to_whom_match}),
         deadline_correct |->
             Cardinality({k \in Hits(ms) : ms[k].deadline_match})]

\* Reference dicts of a ground-truth file, and predicted dicts of both
\* extraction schemas, one with a resolved speaker name
GtDicts ==
    { [who |-> PyStr("SPEAKER_ME"), to_whom |-> PyStr("Bob"),
       text |-> PyStr("call"), direction |-> PyStr("outgoing"),
       deadline |-> PyStr("fri"), quote |-> PyStr("i do")],
      [who |-> PyStr("Speaker_Me "), to_whom |-> PyStr("bob"),
       text |-> PyStr("Call"), direction |-> PyStr("Outgoing"),
       deadline |-> PyNone, quote |-> PyStr("I  do")],
      [who |-> PyStr("Bob"), to_whom |-> PyStr("SPEAKER_ME"),
       text |-> PyStr("mail"), direction |-> PyStr("incoming"),
       deadline |-> PyStr("mon"), quote |-> PyStr("")],
      [who |-> PyStr("SPEAKER_ME_2"), text |-> PyStr("xy"),
       direction |-> PyStr("outgoing"), deadline |-> PyStr("fri")],
      [who |-> PyStr("Ann"), to_whom |-> PyNone, text |-> PyStr("zzz"),
       direction |-> PyStr("third_party"), quote |-> PyStr("yo")] }

PredDicts ==
    { [type |-> PyStr("outgoing"), who |-> PyStr("SPEAKER_ME"),
       to_whom |-> PyStr("Bob"), what |-> PyStr("call"),
       deadline |-> PyStr("fri"), quote |-> PyStr("i do"),
       uncertain |-> PyBool(FALSE)],
      [direction |-> PyStr("Outgoing"), committer_label |-> PyStr("Speaker_Me "),
       recipient_label |-> PyStr("bob"), commitment_text |-> PyStr("Call"),
       verbatim_quote |-> PyStr("I  do"), deadline_raw |-> PyNone,
       commitment_confidence |-> PyFloat(90), conditional |-> PyBool(FALSE)],
      [type |-> PyStr("incoming"), who |-> PyStr("Bob"),
       to_whom |-> PyStr("SPEAKER_ME"), what |-> PyStr("mail"),
       deadline |-> PyStr("mon"), quote |-> PyNone],
      [direction |-> PyStr("outgoing"),
       committer_label |-> PyStr("SPEAKER_ME_2"),
       commitment_text |-> PyStr("xy"), deadline_raw |-> PyStr("fri")],
      [type |-> PyStr("third_party"), who |-> PyStr("SPEAKER_1"),
       who_name |-> PyStr("Ann"), what |-> PyStr("zzz"),
       quote |-> PyStr("yo")] }

\* what evaluate_session can return for the lists of the model (computed
\* once)
SessionOutcomes ==
    { SessionOutcome(g, p) : g \in ListsUpTo(GtDicts, MaxGt),
                             p \in ListsUpTo(PredDicts, MaxPred) }

\* lines 208-232: the four field accuracy properties of EvalReport
Accuracy(correct, total) == IF total > 0 THEN Frac(correct, total) ELSE ZERO

\* round(x, 4): a float in ten-thousandths (no fraction of the model lies
\* half-way between two of them)
Rounded(f) ==
    [t |-> "float", s |-> "", n |-> (20000 * f[1] + f[2]) \div (2 * f[2])]

\* an entry that reports the accuracy property where nothing was matched
FieldAccuracyEntryAlways(correct, total) == Rounded(Accuracy(correct, total))

\* lines 687-696: an entry of "field_accuracy"
FieldAccuracyEntry(correct, total) ==
    IF total > 0 THEN Rounded(Accuracy(correct, total)) ELSE PyNone

\* lines 33-40, in hundredths
THRESHOLDS ==
    [precision |-> 70, recall |-> 70, f1 |-> 70, direction_accuracy |-> 85,
     who_accuracy |-> 80, deadline_accuracy |-> 75]

\* lines 673-713
ReportToDict(rep) ==
    [detection |->
         [ground_truth_count |-> rep.total_gt,
          prediction_count |-> rep.total_pred,
          true_positives |-> rep.total_tp,
          false_positives |-> rep.total_fp,
          false_negatives |-> rep.total_fn,
          precision |->
              Rounded(Precision(rep.total_tp, rep.total_fp, rep.total_fn)),
          recall |-> Rounded(Recall(rep.total_tp, rep.total_fp, rep.total_fn)),
          f1 |-> Rounded(F1(rep.total_tp, rep.total_fp, rep.total_fn))],
     field_accuracy |->
         [direction |->
              FieldAccuracyEntry(rep.direction_correct, rep.direction_total),
          who |-> FieldAccuracyEntry(rep.who_correct, rep.who_total),
          to_whom |->
              FieldAccuracyEntry(rep.to_whom_correct, rep.to_whom_total),
          deadline |->
              FieldAccuracyEntry(rep.deadline_correct, rep.deadline_total)],
     thresholds |-> THRESHOLDS,
     sessions |->
         [k \in 1..Len(rep.sessions) |->
             LET sr == rep.sessions[k]
                 tp == sr.true_positives
                 fp == sr.false_positives
                 fn == sr.false_negatives
             IN  [gt_count |-> sr.gt_count, pred_count |-> sr.pred_count,
                  tp |-> tp, fp |-> fp, fn |-> fn,
                  precision |-> Rounded(Precision(tp, fp, fn)),
                  recall |-> Rounded(Recall(tp, fp, fn)),
                  f1 |-> Rounded(F1(tp, fp, fn))]]]

\* no dict yet
NoDict == ReportToDict(EmptyReport)

\* The keys of a ground-truth file, in file order: sessions, and metadata
\* keys, which start with an underscore
KeyLists ==
    { <<>>, <<"_meta">>, <<"s1">>, <<"_meta", "s1">>, <<"s1", "s2">>,
      <<"s1", "_meta", "s2">> }

ReportIdle ==
    /\ gt_keys = <<>> /\ ev_k = 0 /\ report = EmptyReport /\ rpc = "idle"
    /\ result_dict = NoDict

\* line 423
ReportInit ==
    /\ gt_keys \in KeyLists
    /\ ev_k = 0
    /\ report = EmptyReport
    /\ rpc = "loop"
    /\ result_dict = NoDict

\* lines 427-428: a metadata key is skipped
EvaluateSkip ==
    /\ rpc = "loop"
    /\ ev_k < Len(gt_keys)
    /\ StartsWith(gt_keys[ev_k + 1], "_")
    /\ ev_k' = ev_k + 1
    /\ UNCHANGED <<gt_keys, report, rpc, result_dict>>
    /\ UNCHANGED exceptReport

\* lines 430-464: one session is evaluated and added to the report
EvaluateOne ==
    /\ rpc = "loop"
    /\ ev_k < Len(gt_keys)
    /\ ~StartsWith(gt_keys[ev_k + 1], "_")
    /\ \E o \in SessionOutcomes :
         report' =
             [sessions |-> Append(report.sessions, o.session),
              total_gt |-> report.total_gt + o.session.gt_count,
              total_pred |-> report.total_pred + o.session.pred_count,
              total_tp |-> report.total_tp + o.session.true_positives,
              total_fp |-> report.total_fp + o.session.false_positives,
              total_fn |-> report.total_fn + o.session.false_negatives,
              direction_correct |->
                  report.direction_correct + o.direction_correct,
              direction_total |-> report.direction_total + o.hits,
              who_correct |-> report.who_correct + o.who_correct,
              who_total |-> report.who_total + o.hits,
              to_whom_correct |-> report.to_whom_correct + o.to_whom_correct,
              to_whom_total |-> report.to_whom_total + o.hits,
              deadline_correct |->
                  report.deadline_correct + o.deadline_correct,
              deadline_total |-> report.deadline_total + o.hits]
    /\ ev_k' = ev_k + 1
    /\ UNCHANGED <<gt_keys, rpc, result_dict>>
    /\ UNCHANGED exceptReport

\* line 466
EvaluateReturn ==
    /\ rpc = "loop"
    /\ ev_k = Len(gt_keys)
    /\ rpc' = "done"
    /\ UNCHANGED <<gt_keys, ev_k, report, result_dict>>
    /\ UNCHANGED exceptReport

\* evaluate.py line 770, run_eval.py line 245: the returned report is
\* converted
ReportToDictCall ==
    /\ rpc = "done"
    /\ result_dict' = ReportToDict(report)
    /\ rpc' = "dict"
    /\ UNCHANGED <<gt_keys, ev_k, report>>
    /\ UNCHANGED exceptReport

ReportNext ==
    EvaluateSkip \/ EvaluateOne \/ EvaluateReturn \/ ReportToDictCall

----------------------------------------------------------------------------
(* The specifications *)

InitChunk ==
    ChunkInit /\ DedupIdle /\ MatchIdle
    /\ ExtractIdle /\ NormIdle /\ ParseIdle /\ ReportIdle
SpecChunk == InitChunk /\ [][ChunkNext]_vars

InitDedup ==
    DedupInit /\ ChunkIdle /\ MatchIdle
    /\ ExtractIdle /\ NormIdle /\ ParseIdle /\ ReportIdle
SpecDedup == InitDedup /\ [][DedupNext]_vars

InitMatch ==
    MatchInit /\ ChunkIdle /\ DedupIdle
    /\ ExtractIdle /\ NormIdle /\ ParseIdle /\ ReportIdle
SpecMatch == InitMatch /\ [][MatchNext]_vars

InitExtract ==
    ExtractInit /\ ChunkIdle /\ DedupIdle
    /\ MatchIdle /\ NormIdle /\ ParseIdle /\ ReportIdle
SpecExtract == InitExtract /\ [][ExtractNext]_vars

InitNorm ==
    NormInit /\ ChunkIdle /\ DedupIdle
    /\ MatchIdle /\ ExtractIdle /\ ParseIdle /\ ReportIdle
SpecNorm == InitNorm /\ [][NormNext]_vars

InitParse ==
    ParseInit /\ ChunkIdle /\ DedupIdle /\ MatchIdle /\ ExtractIdle /\ NormIdle
    /\ ReportIdle
SpecParse == InitParse /\ [][ParseNext]_vars

InitReport ==
    ReportInit /\ ChunkIdle /\ DedupIdle /\ MatchIdle /\ ExtractIdle /\ NormIdle
    /\ ParseIdle
SpecReport == InitReport /\ [][ReportNext]_vars

----------------------------------------------------------------------------
(* Claims about chunk_transcript *)

\* chunk 0 followed by every later chunk without its first `overlap` characters
RECURSIVE JoinSuffixes(_, _)
JoinSuffixes(chs, i) ==
    IF i > Len(chs) THEN ""
    ELSE PySlice(chs[i], overlap, Len(chs[i])) \o JoinSuffixes(chs, i + 1)

Reconstructed(chs) == IF chs = <<>> THEN "" ELSE chs[1] \o JoinSuffixes(chs, 2)

ChunkReturned == cpc = "done"

ValidConfig == max_chars >= 1 /\ 0 <= overlap /\ overlap < max_chars

\* C5: for every text and every configuration with 0 <= overlap < max_chars,
\* the returned chunks reconstruct the text: chunk 0 followed by each later
\* chunk with its first `overlap` characters removed equals the text.
C5_Reconstruction ==
    (ChunkReturned /\ ValidConfig) => Reconstructed(chunks) = text

\* C6: with max_chars >= 1 and 0 <= overlap < max_chars the start position
\* makes progress on every iteration of the loop (so the loop ends).
C6_StartAdvances ==
    [][(ValidConfig /\ cpc = "loop" /\ cpc' = "loop") => start' > start]_vars

----------------------------------------------------------------------------
(* Claims about _deduplicate_commitments *)

\* a key field as the claim reads it: from either schema's name, trimmed and
\* lower-cased
FieldText(c)   == Lower(Strip(PyOr(PyOr(c.what, c.commitment_text), "")))
FieldWho(c)    == Lower(Strip(PyOr(PyOr(c.who, c.committer_label), "")))
FieldToWhom(c) == Lower(Strip(PyOr(PyOr(c.to_whom, c.recipient_label), "")))

SameCommitment(c, d) ==
    /\ FieldText(c) = FieldText(d)
    /\ FieldWho(c) = FieldWho(d)
    /\ FieldToWhom(c) = FieldToWhom(d)

\* the records of cs that no earlier record of cs agrees with, in input order
RECURSIVE FirstOccurrences(_, _)
FirstOccurrences(cs, i) ==
    IF i > Len(cs) THEN <<>>
    ELSE IF \E j \in 1..(i - 1) : SameCommitment(cs[j], cs[i])
         THEN FirstOccurrences(cs, i + 1)
         ELSE <<cs[i]>> \o FirstOccurrences(cs, i + 1)

\* C10: _deduplicate_commitments returns its input with exactly the later
\* duplicates removed: a record is removed iff an earlier record agrees with
\* it on action text, who and to-whom; the kept records stay in input order.
C10_RemovesExactlyDuplicates ==
    dd_pc = "done" => dd_out = FirstOccurrences(dd_in, 1)

\* a record with nothing in any of the three key fields
Blank(c) == FieldText(c) = "" /\ FieldWho(c) = "" /\ FieldToWhom(c) = ""

BlankRecords(cs) == SelectSeq(cs, Blank)

\* C11: a record whose three key fields are all blank is never removed by
\* _deduplicate_commitments: the output holds every blank record of the
\* input, however many the input contains.
C11_BlankNeverRemoved ==
    dd_pc = "done" => BlankRecords(dd_out) = BlankRecords(dd_in)

\* C12: deduplication is idempotent: the deduplicator applied to its own
\* output returns that list, same records in the same order.
C12_Idempotent ==
    dd_pc = "again" => dd_out = dd_in

\* the second application was of a list of two records or more, a blank one
\* and another among them
C12_Witness ==
    /\ dd_pc = "again"
    /\ Len(dd_out) >= 2
    /\ \E i \in 1..Len(dd_out) : Blank(dd_out[i])
    /\ \E i \in 1..Len(dd_out) : ~Blank(dd_out[i])

----------------------------------------------------------------------------
(* Claims about match_commitments *)

Accepted == {k \in 1..Len(matches) : matches[k].pred_index # -1}

MatchReturned == mpc = "done"

\* C7: no reference index and no predicted index occurs in more than one
\* accepted match, and every accepted match has a score >= 0.25.
C7_OneToOneAboveThreshold ==
    /\ \A a, b \in Accepted :
           a # b => /\ matches[a].gt_index # matches[b].gt_index
                    /\ matches[a].pred_index # matches[b].pred_index
    /\ \A a \in Accepted : FracAtLeast(matches[a].similarity, MATCH_THRESHOLD)

\* two accepted matches, after a pair was passed over because one of its
\* indices was already claimed
C7_Witness ==
    /\ MatchReturned
    /\ Cardinality(Accepted) >= 2
    /\ \E k \in 1..Len(all_pairs) :
           /\ ~BelowThreshold(all_pairs[k].score)
           /\ \A a \in Accepted :
                  <<matches[a].gt_index, matches[a].pred_index>>
                      # <<all_pairs[k].gt_i, all_pairs[k].pred_j>>

\* C8: on return there is exactly one MatchResult per reference index, every
\* predicted index is either the predicted index of exactly one accepted
\* match or listed as unmatched (never both), and so TP + FN is the number of
\* reference items and TP + FP the number of predicted items; an empty
\* reference gives no results and all predictions unmatched, an empty
\* predicted list one miss per reference item.
C8_Partition ==
    MatchReturned =>
        LET n_gt == Len(ground_truth)
            n_pred == Len(predictions)
            hits(j) == {a \in Accepted : matches[a].pred_index = j}
            listed(j) == {u \in 1..Len(unmatched_preds) : unmatched_preds[u] = j}
        IN  /\ Len(matches) = n_gt
            /\ \A i \in 0..(n_gt - 1) :
                   Cardinality({k \in 1..Len(matches) : matches[k].gt_index = i}) = 1
            /\ \A a \in Accepted : matches[a].pred_index \in 0..(n_pred - 1)
            /\ \A u \in 1..Len(unmatched_preds) : unmatched_preds[u] \in 0..(n_pred - 1)
            /\ \A j \in 0..(n_pred - 1) :
                   Cardinality(hits(j)) + Cardinality(listed(j)) = 1
            /\ TruePositives + FalseNegatives = n_gt
            /\ TruePositives + FalsePositives = n_pred
            /\ n_gt = 0 => matches = <<>> /\ Len(unmatched_preds) = n_pred
            /\ (n_pred = 0 /\ n_gt > 0) => Accepted = {}

\* a hit, a miss and an unmatched prediction in one result
C8_Witness ==
    /\ MatchReturned
    /\ TruePositives >= 1
    /\ FalseNegatives >= 1
    /\ FalsePositives >= 1

PairBefore(p, q) ==
    \/ p.gt_i < q.gt_i
    \/ p.gt_i = q.gt_i /\ p.pred_j < q.pred_j

\* C9: the result is a function of the two lists alone: the greedy scan sees
\* every pair once, in descending score order, pairs of equal score in
\* original pair order (lower reference index, then lower predicted index);
\* the accepted matches are listed in scan order, then the misses by
\* reference index, and the unmatched predictions in ascending order.
C9_ScanOrderFixed ==
    (mpc \in {"scan", "done"} /\ ground_truth # <<>> /\ predictions # <<>>) =>
        /\ Len(all_pairs) = Len(ground_truth) * Len(predictions)
        /\ \A i \in 0..(Len(ground_truth) - 1), j \in 0..(Len(predictions) - 1) :
               \E k \in 1..Len(all_pairs) :
                   /\ all_pairs[k].gt_i = i /\ all_pairs[k].pred_j = j
                   /\ all_pairs[k].score =
                          Scores[ground_truth[i + 1], predictions[j + 1]]
        /\ \A a, b \in 1..Len(all_pairs) :
               a < b => /\ ~FracLess(all_pairs[a].score, all_pairs[b].score)
                        /\ all_pairs[a].score = all_pairs[b].score
                               => PairBefore(all_pairs[a], all_pairs[b])
        /\ \A a, b \in 1..Len(unmatched_preds) :
               a < b => unmatched_preds[a] < unmatched_preds[b]
        /\ \A a, b \in 1..Len(matches) :
               (a < b /\ matches[a].pred_index = -1)
                   => /\ matches[b].pred_index = -1
                      /\ matches[a].gt_index < matches[b].gt_index

\* a returned result whose pair list held two pairs of equal score that
\* reach the threshold and compete for the same prediction
C9_Witness ==
    /\ MatchReturned
    /\ \E a, b \in 1..Len(all_pairs) :
           /\ a < b
           /\ all_pairs[a].score = all_pairs[b].score
           /\ ~BelowThreshold(all_pairs[a].score)
           /\ all_pairs[a].pred_j = all_pairs[b].pred_j

----------------------------------------------------------------------------
(* Claims about extract_commitments and _extract_single *)

ExtractReturned == xpc = "returned"

\* the calls made for chunk c, in the order made
RECURSIVE CallsFor(_, _)
CallsFor(c, k) ==
    IF k > Len(calls) THEN <<>>
    ELSE (IF calls[k].chunk = c THEN <<calls[k]>> ELSE <<>>) \o CallsFor(c, k + 1)

ChunkIndices == 0..(transcript.n_chunks - 1)

\* C1: whatever the service does (unreachable, timeout, any response body,
\* any content, items of `commitments` that are not records included),
\* extract_commitments returns a result with a `commitments` list and raises
\* no exception.
C1_NeverRaises == xpc # "raised"

\* C2: for one chunk at most two service calls are made; the first uses the
\* karpathy prompt; a second call, with the murati prompt, is made only if
\* the first returned a response that failed to parse; no call follows, for
\* that chunk, a call that found the service unreachable or a response that
\* parsed.
C2_TwoAttemptsInOrder ==
    \A c \in 0..MaxChunks :
        LET cc == CallsFor(c, 1)
        IN  /\ Len(cc) <= 2
            /\ Len(cc) >= 1 => cc[1].prompt = "karpathy"
            /\ Len(cc) = 2 => /\ cc[2].prompt = "murati"
                              /\ cc[1].outcome = "unparsed"
            /\ \A k \in 1..(Len(cc) - 1) :
                   cc[k].outcome \notin {"unavailable", "parsed", "raised"}

\* a returned extraction in which one chunk needed both prompts and another
\* found the service unreachable at its first call
C2_Witness ==
    /\ ExtractReturned
    /\ \E c \in ChunkIndices :
           Len(CallsFor(c, 1)) = 2 /\ CallsFor(c, 1)[2].outcome = "parsed"
    /\ \E c \in ChunkIndices :
           Len(CallsFor(c, 1)) = 1 /\ CallsFor(c, 1)[1].outcome = "unavailable"

ParsedResult(resp) ==
    LET parsed == ParseJson(resp.content)
    IN  Result(parsed.commitments, parsed.extraction_notes, 0)

WithoutIds(cs) == [j \in 1..Len(cs) |-> [cs[j] EXCEPT !.id = 0]]

\* what chunk c contributes: the commitments of its parsed response, or none
ChunkYield(c) ==
    LET cc == CallsFor(c, 1)
    IN  IF cc # <<>> /\ cc[Len(cc)].outcome = "parsed"
        THEN ParseJson(cc[Len(cc)].response.content).commitments
        ELSE <<>>

RECURSIVE YieldsFrom(_)
YieldsFrom(c) ==
    IF c >= transcript.n_chunks THEN <<>>
    ELSE ChunkYield(c) \o YieldsFrom(c + 1)

ChunkFailed(c) ==
    LET cc == CallsFor(c, 1)
    IN  cc # <<>> /\ cc[Len(cc)].outcome \in {"unavailable", "unparsed"}

C16_IdsSequential ==
    (ExtractReturned /\ transcript.n_chunks > 1) =>
        \A j \in 1..Len(result.commitments) : result.commitments[j].id = j

\* a multi-chunk return of two commitments or more, after deduplication
\* removed one, from responses whose ids were not 1, 2, ...
C16_Witness ==
    /\ ExtractReturned
    /\ transcript.n_chunks > 1
    /\ Len(result.commitments) >= 2
    /\ Len(result.commitments) < Len(all_commitments)
    /\ \E k \in 1..Len(calls) :
           /\ calls[k].outcome = "parsed"
           /\ \E j \in 1..Len(ParseJson(calls[k].response.content).commitments) :
                  ParseJson(calls[k].response.content).commitments[j].id # j

----------------------------------------------------------------------------
(* Claims about _parse_json and _call_ollama *)

\* a payload json.loads reads as a mapping with a list under `commitments`
WellFormed(doc) == Loads(doc).kind = "object"

ParseDone == pj_pc = "done"

\* C17: _parse_json returns null for unparseable text and for JSON that is
\* not a mapping with a list under `commitments`, so a result that is not
\* null is such a mapping; and a well-formed payload is returned as that
\* payload when a <think>...</think> block precedes it or fence lines wrap
\* it.
C17_ParseContract ==
    ParseDone =>
        /\ ~WellFormed(pj_src.doc) => pj_out = NoParse
        /\ pj_out # NoParse => pj_out.kind = "object"
        /\ ( /\ WellFormed(pj_src.doc)
             /\ pj_src.pad = "none"
             /\ pj_src.think = "closed" \/ (pj_src.think = "none" /\ pj_src.fence) )
               => pj_out = Loads(pj_src.doc)

\* the text the strict parse is tried on
Cleaned(raw) == Strip(StripFences(StripThink(raw)))

\* the number of places of s that hold the character c
Count(s, c) == Cardinality({i \in 0..(Len(s) - 1) : Ch(s, i) = c})

RECURSIVE Repeat(_, _)
Repeat(c, n) == IF n <= 0 THEN "" ELSE c \o Repeat(c, n - 1)

\* truncation repair as the claim words it: the text up to its last closing
\* brace, then the closing brackets and braces its unmatched [ and { need
Repaired(txt) ==
    LET last == CHOOSE i \in 0..(Len(txt) - 1) :
                    /\ Ch(txt, i) = "}"
                    /\ \A j \in (i + 1)..(Len(txt) - 1) : Ch(txt, j) # "}"
        prefix == SubSeq(txt, 1, last + 1)
    IN  prefix \o Repeat("]", Count(prefix, "[") - Count(prefix, "]"))
               \o Repeat("}", Count(prefix, "{") - Count(prefix, "}"))

\* C18: when the strict parse fails and the text starts with an open brace,
\* the parser repairs the truncation, so a truncated response whose repaired
\* text is a valid commitments mapping yields that mapping, not null.
C18_TruncationRepair ==
    ( /\ ParseDone
      /\ Loads(Cleaned(pj_raw)).kind = "invalid"
      /\ StartsWith(Cleaned(pj_raw), "{")
      /\ Contains(Cleaned(pj_raw), "}")
      /\ WellFormed(Repaired(Cleaned(pj_raw))) )
        => pj_out = Loads(Repaired(Cleaned(pj_raw)))

\* a request the service did not answer
Unreachable(resp) == resp.http \in {"urlerror", "timeout"}

\* an answer whose body is not a JSON object carrying a message
Malformed(resp) == resp.http \in {"not_json", "json_array", "no_message"}

\* C19: _call_ollama never raises past its boundary: it returns None when
\* the service is unreachable and when the HTTP response is malformed, and
\* the message content otherwise.
C19_CallNeverRaises ==
    \A k \in 1..Len(calls) :
        /\ calls[k].outcome # "raised"
        /\ (Unreachable(calls[k].response) \/ Malformed(calls[k].response))
               <=> calls[k].outcome = "unavailable"

----------------------------------------------------------------------------
(* Claims about the storage and evaluation normalizers *)

\* the schema a raw dict is of, by its distinctive keys
IsSchemaA(raw) == "type" \in DOMAIN raw /\ "what" \in DOMAIN raw
IsSchemaB(raw) ==
    ~IsSchemaA(raw) /\ "direction" \in DOMAIN raw /\ "commitment_text" \in DOMAIN raw

\* direction, who and text of a raw dict after schema mapping
MappedDirection(raw) == IF IsSchemaA(raw) THEN Get(raw, "type") ELSE Get(raw, "direction")
MappedWho(raw) == IF IsSchemaA(raw) THEN Get(raw, "who") ELSE Get(raw, "committer_label")
MappedText(raw) == IF IsSchemaA(raw) THEN Get(raw, "what") ELSE Get(raw, "commitment_text")

\* a record that normalizes to a valid one: a known schema, a known
\* direction, non-empty who and text
ValidRecord(raw) ==
    /\ IsSchemaA(raw) \/ IsSchemaB(raw)
    /\ MappedDirection(raw).t = "str" /\ MappedDirection(raw).s \in DIRECTIONS
    /\ TruthyV(MappedWho(raw))
    /\ TruthyV(MappedText(raw))

InsertEnded == ipc \in {"returned", "raised"}

\* C13: no record whose who or text is empty after schema mapping is written
\* to storage by insert_commitments, and none is passed to match_commitments
\* by evaluate_session.
C13_NoEmptyWhoOrText ==
    /\ \A k \in 1..Len(table) :
           TruthyV(table[k].who_label) /\ TruthyV(table[k].text)
    /\ \A k \in 1..Len(passed_gt) :
           passed_gt[k].who \notin {"", NONE} /\ passed_gt[k].text \notin {"", NONE}
    /\ \A k \in 1..Len(passed_pred) :
           passed_pred[k].who \notin {"", NONE} /\ passed_pred[k].text \notin {"", NONE}

\* what identifies a stored row and the record it came from
RowOf(raw) ==
    [direction |-> MappedDirection(raw), who |-> MappedWho(raw),
     text |-> MappedText(raw)]

StoredAs(row) ==
    [direction |-> row.direction, who |-> row.who_label, text |-> row.text]

\* C14: insert_commitments stores exactly the records of the batch that
\* normalize to a valid record, in input order; every other record is
\* skipped without raising and without keeping the valid ones from being
\* stored.
C14_StoresExactlyValid ==
    InsertEnded =>
        /\ ins_exc = ""
        /\ LET valid == SelectSeq(batch, ValidRecord)
           IN  /\ Len(table) = Len(valid)
               /\ \A k \in 1..Len(valid) : StoredAs(table[k]) = RowOf(valid[k])

\* uncertain as the claim derives it for a schema B record
DerivedUncertain(raw) ==
    LET confidence == Get(raw, "commitment_confidence")
    IN  \/ /\ confidence.t \in {"float", "bool"}
           /\ Number(confidence) < 80
        \/ TruthyV(Get(raw, "conditional"))

\* C15: normalizing a schema B record yields uncertain = true iff a numeric
\* confidence is present and below 0.8 or the conditional flag is set, in
\* the storage normalizer and in Commitment.from_dict alike.
C15_UncertainDerivation ==
    /\ \A k \in 1..ins_i :
           (IsSchemaB(batch[k]) /\ NormalizeCommitment(batch[k]).kind = "row")
               => (NormalizeCommitment(batch[k]).row.uncertain = 1
                      <=> DerivedUncertain(batch[k]))
    /\ \A k \in 1..Len(passed_pred) :
           IsSchemaB(batch[k])
               => (passed_pred[k].uncertain <=> DerivedUncertain(batch[k]))

----------------------------------------------------------------------------
(* Claims about the metrics of SessionResult and EvalReport *)

\* f is exactly n / d, and exactly 0.0 when d is zero
IsRatio(f, n, d) ==
    IF d > 0 THEN f[2] > 0 /\ f[1] * d = n * f[2] ELSE f = ZERO

\* the three metrics of the counts tp, fp, fn are the ratios of the claim
MetricsOf(tp, fp, fn) ==
    LET pr == Precision(tp, fp, fn)
        rc == Recall(tp, fp, fn)
        f1 == F1(tp, fp, fn)
    IN  /\ IsRatio(pr, tp, tp + fp)
        /\ IsRatio(rc, tp, tp + fn)
        \* the harmonic mean 2pr/(p+r) of p = pr[1]/pr[2], r = rc[1]/rc[2]
        /\ IsRatio(f1, 2 * pr[1] * rc[1], pr[1] * rc[2] + rc[1] * pr[2])
        \* which is 2tp / (2tp + fp + fn)
        /\ IsRatio(f1, 2 * tp, 2 * tp + fp + fn)

\* two reference items against no prediction
ScenarioB(sr) == sr.gt_count = 2 /\ sr.pred_count = 0

\* C20: for every SessionResult and every EvalReport, precision is
\* TP/(TP+FP), recall is TP/(TP+FN) and F1 is their harmonic mean, each
\* exactly 0.0 when its denominator is zero; two reference items against no
\* prediction give FP = 0, FN = 2, precision 0.0 and recall 0.0.
C20_Metrics ==
    /\ MetricsOf(report.total_tp, report.total_fp, report.total_fn)
    /\ \A k \in 1..Len(report.sessions) :
           LET sr == report.sessions[k]
           IN  /\ MetricsOf(sr.true_positives, sr.false_positives,
                            sr.false_negatives)
               /\ ScenarioB(sr) =>
                      /\ sr.false_positives = 0
                      /\ sr.false_negatives = 2
                      /\ Precision(sr.true_positives, sr.false_positives,
                                   sr.false_negatives) = ZERO
                      /\ Recall(sr.true_positives, sr.false_positives,
                                sr.false_negatives) = ZERO

\* a finished report with a session of two references and no prediction, and
\* hits, false positives and misses in total, in unequal numbers
C20_Witness ==
    /\ rpc = "done"
    /\ \E k \in 1..Len(report.sessions) : ScenarioB(report.sessions[k])
    /\ report.total_tp > 0
    /\ report.total_fp > 0
    /\ report.total_fn > report.total_fp

----------------------------------------------------------------------------
(* Claims about sessions without references *)

\* a session whose reference set is empty
NoReference(sr) == sr.gt_count = 0

\* the three metrics of a session are 0.0
ZeroMetrics(sr) ==
    /\ Precision(sr.true_positives, sr.false_positives, sr.false_negatives)
           = ZERO
    /\ Recall(sr.true_positives, sr.false_positives, sr.false_negatives)
           = ZERO
    /\ F1(sr.true_positives, sr.false_positives, sr.false_negatives) = ZERO

\* C21 (as stated): a session whose reference set is empty has TP = 0,
\* FP = 0 and FN = 0 and precision = recall = F1 = 0.0, for every predicted
\* set.
C21_EmptyReferenceNoFP ==
    \A k \in 1..Len(report.sessions) :
        LET sr == report.sessions[k]
        IN  NoReference(sr) =>
                /\ sr.true_positives = 0
                /\ sr.false_positives = 0
                /\ sr.false_negatives = 0
                /\ ZeroMetrics(sr)

\* C21 (amended): a session whose reference set is empty has TP = 0 and
\* FN = 0, every prediction is a false positive (FP is the number of
\* predictions), and precision = recall = F1 = 0.0.
C21_EmptyReference ==
    \A k \in 1..Len(report.sessions) :
        LET sr == report.sessions[k]
        IN  NoReference(sr) =>
                /\ sr.true_positives = 0
                /\ sr.false_positives = sr.pred_count
                /\ sr.false_negatives = 0
                /\ ZeroMetrics(sr)

\* a recorded session with no reference and two predictions
C21_Witness ==
    \E k \in 1..Len(report.sessions) :
        NoReference(report.sessions[k]) /\ report.sessions[k].pred_count = 2

----------------------------------------------------------------------------
(* Claims about the field accuracies of the corpus report *)

\* the four (correct, total) tallies of the report
FieldTallies ==
    { <<report.direction_correct, report.direction_total, "direction">>,
      <<report.who_correct, report.who_total, "who">>,
      <<report.to_whom_correct, report.to_whom_total, "to_whom">>,
      <<report.deadline_correct, report.deadline_total, "deadline">> }

\* v is the float nearest to correct / total, in ten-thousandths
NearestTo(v, correct, total) ==
    /\ v.t = "float"
    /\ 2 * (v.n * total - 10000 * correct) <= total
    /\ 2 * (10000 * correct - v.n * total) <= total

\* C22: the four field accuracies are computed only over matched pairs, so
\* each field total is the number of true positives; in the converted
\* report an accuracy is the ratio correct / total, and with no matched pair
\* it is None, which is not the accuracy 0.0.
C22_FieldAccuracies ==
    /\ \A ft \in FieldTallies : ft[2] = report.total_tp /\ ft[1] <= ft[2]
    /\ rpc = "dict" =>
           \A ft \in FieldTallies :
               LET entry == result_dict.field_accuracy[ft[3]]
               IN  IF report.total_tp = 0
                   THEN entry = PyNone /\ entry # Rounded(ZERO)
                   ELSE NearestTo(entry, ft[1], ft[2])

\* a converted report of references and predictions none of which matched
C22_Witness ==
    /\ rpc = "dict"
    /\ report.total_gt > 0 /\ report.total_pred > 0 /\ report.total_tp = 0
    /\ result_dict.field_accuracy.deadline = PyNone

----------------------------------------------------------------------------
(* Claims about the chunks of chunk_transcript *)

\* C23: every chunk chunk_transcript returns, the last one included, has
\* length at most max_chars, for every text and every configuration for
\* which the function returns.
C23_ChunkLength ==
    cpc = "done" => \A k \in 1..Len(chunks) : Len(chunks[k]) <= max_chars

\* a return of several chunks whose last chunk is max_chars long
C23_Witness ==
    /\ cpc = "done"
    /\ Len(chunks) >= 3
    /\ Len(chunks[Len(chunks)]) = max_chars

\* x[-overlap:], the last overlap characters of x
LastOverlap(x) == PySlice(x, 0 - overlap, Len(x))

\* C24: for every pair of consecutive chunks produced with overlap > 0, the
\* first overlap characters of the later chunk are the last overlap
\* characters of the earlier one.
C24_OverlapRepeated ==
    (ValidConfig /\ overlap > 0) =>
        \A k \in 1..(Len(chunks) - 1) :
            PySlice(chunks[k + 1], 0, overlap) = LastOverlap(chunks[k])

\* position i of the text holds a line break
BreakAt(i) == i \in 0..(Len(text) - 1) /\ Ch(text, i) = NL

\* C25: a chunk that is not the last one and whose window
\* [start, start + max_chars) contains a line break ends immediately after
\* a line break; it ends at the raw window boundary only when the window
\* contains no line break.
C25_NoLineSplit ==
    [][ (ValidConfig /\ cpc = "loop" /\ start >= 0
            /\ Len(chunks') = Len(chunks) + 1 /\ cpc' = "loop") =>
          LET end == start' + overlap
              chunk == chunks'[Len(chunks')]
          IN  IF \E i \in start..(start + max_chars - 1) : BreakAt(i)
              THEN BreakAt(end - 1) /\ chunk = PySlice(text, start, end)
              ELSE end = start + max_chars ]_vars

\* C26: a call with overlap >= max_chars is rejected at the call boundary:
\* it returns no chunks and never enters the loop.
C26_NonPositiveStepRejected ==
    overlap >= max_chars => cpc \in {"idle", "call"}

\* C27: for every text with len(text) <= max_chars, the empty text
\* included, exactly one chunk is returned, equal to the input, whatever the
\* overlap.
C27_SingleChunk ==
    (cpc \notin {"idle", "call"} /\ Len(text) <= max_chars) =>
        cpc = "done" /\ chunks = <<text>>

\* a text of exactly max_chars characters returned whole, with an overlap
C27_Witness ==
    /\ cpc = "done"
    /\ Len(text) = max_chars /\ overlap > 0
    /\ chunks = <<text>>

----------------------------------------------------------------------------
(* Claims about the length check of extract_commitments *)

\* the transcript is empty or has fewer than 50 characters once trimmed
ShortTranscript == transcript.raw_len = 0 \/ transcript.strip_len < 50

\* C28: a transcript that is empty or has fewer than 50 characters after
\* trimming is rejected with empty commitments and a "too short" note, and
\* no service call is made for it.
C28_ShortRejected ==
    (ShortTranscript /\ xpc \notin {"idle", "call"}) =>
        /\ xpc = "returned"
        /\ raised = ""
        /\ result.commitments = <<>>
        /\ result.extraction_notes = "transcript too short"
        /\ calls = <<>>

\* the call returned for a transcript of 60 characters, 49 once trimmed
C28_Witness ==
    /\ xpc = "returned"
    /\ transcript.raw_len >= 50 /\ transcript.strip_len = 49
    /\ result = TooShort

----------------------------------------------------------------------------
(* Claims about the greedy assignment of match_commitments *)

\* the score of reference index i and predicted index j
ScoreOf(i, j) == Scores[ground_truth[i + 1], predictions[j + 1]]

\* the reference and predicted indices claimed by the accepted matches
\* before position a of the result
ClaimedGtBefore(a) == {matches[b].gt_index : b \in {c \in Accepted : c < a}}
ClaimedPredBefore(a) ==
    {matches[b].pred_index : b \in {c \in Accepted : c < a}}

\* a scan of the whole pair list, which passes over a pair below the
\* threshold instead of stopping at it
RECURSIVE FullScan(_, _, _, _)
FullScan(k, ugt, upred, ms) ==
    IF k > Len(all_pairs)
    THEN [matches |-> ms \o MissesFor(Len(ground_truth), ugt),
          unmatched_preds |-> UnmatchedFor(Len(predictions), upred)]
    ELSE LET p == all_pairs[k]
         IN  IF p.gt_i \in ugt \/ p.pred_j \in upred \/ BelowThreshold(p.score)
             THEN FullScan(k + 1, ugt, upred, ms)
             ELSE FullScan(k + 1, ugt \cup {p.gt_i}, upred \cup {p.pred_j},
                           Append(ms, Hit(p)))

\* C29: the assignment is the greedy one and the early exit is safe: pairs
\* are accepted in descending score order, each accepted pair has the
\* highest score among the pairs whose two indices were both unclaimed at
\* that moment, stopping at the first unclaimed pair below 0.25 gives the
\* result of a scan of the whole list, and on return no unmatched reference
\* index and unmatched predicted index form a pair with score >= 0.25.
C29_GreedyEarlyExitSafe ==
    /\ \A a, b \in Accepted :
           a < b => ~FracLess(matches[a].similarity, matches[b].similarity)
    /\ \A a \in Accepted :
           /\ matches[a].similarity =
                  ScoreOf(matches[a].gt_index, matches[a].pred_index)
           /\ \A i \in (0..(Len(ground_truth) - 1)) \ ClaimedGtBefore(a),
                 j \in (0..(Len(predictions) - 1)) \ ClaimedPredBefore(a) :
                  ~FracLess(matches[a].similarity, ScoreOf(i, j))
    /\ (MatchReturned /\ ground_truth # <<>> /\ predictions # <<>>) =>
           /\ matches = FullScan(1, {}, {}, <<>>).matches
           /\ unmatched_preds = FullScan(1, {}, {}, <<>>).unmatched_preds
    /\ MatchReturned =>
           \A k \in 1..Len(matches), u \in 1..Len(unmatched_preds) :
               matches[k].pred_index = -1 =>
                   BelowThreshold(ScoreOf(matches[k].gt_index,
                                          unmatched_preds[u]))

\* a return through the early exit, after an accepted match: the scan
\* stopped at an unclaimed pair below the threshold and left pairs behind it
\* unscanned
C29_Witness ==
    /\ MatchReturned
    /\ Accepted # {}
    /\ scan < Len(all_pairs)
    /\ ~Claimed(all_pairs[scan])
    /\ BelowThreshold(all_pairs[scan].score)

----------------------------------------------------------------------------
(* Claims about the combined score *)

\* the tier of quote similarity q and text similarity t
Tier(q, t) ==
    IF 100 * q[1] >= 40 * q[2] THEN "quote"
    ELSE IF 100 * t[1] >= 35 * t[2] THEN "text"
    ELSE "even"

\* the weights of a tier over quote, text and speaker, in hundredths
TierWeights(tier) ==
    CASE tier = "quote" -> <<50, 30, 20>>
      [] tier = "text" -> <<30, 50, 20>>
      [] tier = "even" -> <<33, 34, 33>>

\* quote similarity, text similarity and speaker match of every pair of
\* commitments the lists can hold (computed once)
Signals ==
    [gt_c \in MatchPool, pred_c \in MatchPool |->
        [q |-> Similarity(gt_c.quote, pred_c.quote),
         t |-> Similarity(gt_c.text, pred_c.text),
         sp |-> IF SpeakerMatch(gt_c.who, pred_c.who) THEN 1 ELSE 0]]

\* the signals of the pair p of the two lists
SignalsOf(p) == Signals[ground_truth[p.gt_i + 1], predictions[p.pred_j + 1]]

\* C30: the combined score of every (reference, predicted) pair follows the
\* tiered weighting of quote similarity q, text similarity t and speaker
\* match s: 0.5q + 0.3t + 0.2s if q >= 0.40, else 0.3q + 0.5t + 0.2s if
\* t >= 0.35, otherwise 0.33q + 0.34t + 0.33s.
C30_TieredScore ==
    \A k \in 1..Len(all_pairs) :
        LET q == SignalsOf(all_pairs[k]).q
            t == SignalsOf(all_pairs[k]).t
            sp == SignalsOf(all_pairs[k]).sp
            w == TierWeights(Tier(q, t))
            score == all_pairs[k].score
        IN  \* 100 * score = w[1] * q + w[2] * t + w[3] * sp
            100 * score[1] * q[2] * t[2] =
                score[2] * ( w[1] * q[1] * t[2] + w[2] * t[1] * q[2]
                             + w[3] * sp * q[2] * t[2] )

\* a scored pair list with a pair of each tier, each with a score above 0
C30_Witness ==
    \A tier \in {"quote", "text", "even"} :
        \E k \in 1..Len(all_pairs) :
            /\ Tier(SignalsOf(all_pairs[k]).q, SignalsOf(all_pairs[k]).t) = tier
            /\ all_pairs[k].score[1] > 0

====
